---- MODULE Spec2Model ----
(***************************************************************************)
(* J-PAKE over secp256k1 (src/src/JPake.mts), its Schnorr proofs           *)
(* (src/src/schnorr.mts) and the three-pass adapter (JPakeThreePass).      *)
(*                                                                         *)
(* Abstractions, stated once:                                              *)
(*  - The curve group is the cyclic group of prime order n; a point is     *)
(*    its discrete logarithm to the base G (G = 1, ZERO = 0).  n is a      *)
(*    small prime standing for the order of secp256k1.                     *)
(*  - SHA3-256 is a random oracle.  A challenge is the symbol H(input);    *)
(*    the response r = v - x*c of a proof is kept as the linear form       *)
(*    a - b*H(h) over Z_n, and the verification equation is decided as an  *)
(*    identity in the symbols H(.).  On secp256k1 the two agree outside a  *)
(*    fraction of about 2^-256 of the hash outputs.                        *)
(*  - The curve library is outside the repository.  Its arithmetic is      *)
(*    modelled mathematically; of its argument checks the model keeps the  *)
(*    three that the repository's control flow meets: decoding bytes that  *)
(*    are no curve point throws, encoding the point at infinity throws,    *)
(*    and multiplying a point by a scalar outside 1..n-1 throws.           *)
(*  - A byte string is a record of its length and its content.             *)
(*  - Sessions draw their ephemeral secrets from 1..MaxNonce, far below n, *)
(*    so sums and differences of a few of them are never 0 mod n: on       *)
(*    secp256k1 such a coincidence has probability about 2^-256.  Points   *)
(*    handed in by others are not so restricted.                           *)
(***************************************************************************)
EXTENDS Integers, Sequences, FiniteSets, TLC

\* ------------------------------------------------------------ bounds
\* Ephemeral secrets x1, x2 are drawn from 1..MaxNonce (the code: 1..n-1).
MaxNonce == 2
\* The commitment secret v of a Schnorr proof is drawn from 1..MaxV.
MaxV == 1
\* deriveSFromPassword is called at most MaxCalls times on a password.
MaxCalls == 2

\* ------------------------------------------------------------ constants
\* Order of the group (constants.mts: secp256k1.CURVE.n), scaled down to a
\* prime larger than any sum of four ephemeral secrets of the model.
n == 101
\* The base point, as its own discrete logarithm.
G == 1
\* secp256k1.ProjectivePoint.ZERO, the point at infinity.
ZERO == 0

\* Length of a compressed point, of a scalar, and of a proof (33 + 32 + 2).
PointLen == 33
ScalarLen == 32
ProofLen == 67
\* Longest userId or otherInfo element, in UTF-8 bytes.
MaxFieldLen == 255

\* A field of the session that has not been assigned (undefined).
Unset == 0 - 1

\* JPakeState
INITIAL == 0
ROUND1FINISHED == 1
ROUND2FINISHED == 2
ROUND2RESULTSRECEIVED == 3
KEYDERIVED == 4

\* ------------------------------------------------------------ errors
NoError == [kind |-> "none", msg |-> ""]
InvalidArgumentError(m) == [kind |-> "InvalidArgumentError", msg |-> m]
InvalidStateError(m) == [kind |-> "InvalidStateError", msg |-> m]
VerificationError(m) == [kind |-> "VerificationError", msg |-> m]
JPakeError(m) == [kind |-> "JPakeError", msg |-> m]
\* An error thrown by the curve library, not one of the JPakeError classes.
LibraryError(m) == [kind |-> "Error", msg |-> m]

\* ------------------------------------------------------------ the group
mod(a, m) == a % m

PointAdd(P, Q) == mod(P + Q, n)
PointSubtract(P, Q) == mod(P + n - Q, n)
PointMultiply(P, k) == mod(P * mod(k, n), n)

\* point.toRawBytes(true): the compressed encoding; throws on ZERO, so it is
\* applied only where the caller has ruled ZERO out (CanEncode).
CanEncode(P) == P # ZERO
toRawBytes(P) == [len |-> PointLen, point |-> P]

\* A faulty variant of IsPointBytes: any bytes decode, those that encode no
\* point as the point at infinity.
IsAnyBytes(b) == b.len # Unset

\* ProjectivePoint.fromHex(bytes): bytes that encode no point make it throw.
IsPointBytes(b) == b.len = PointLen /\ b.point \in 1..(n - 1)
fromHex(b) == b.point

\* Bytes passed where a point is expected that are not one
\* (tests: new Uint8Array(32)).
GarbageBytes == [len |-> ScalarLen, point |-> 0]
\* A field that is missing from a message object (undefined).
MissingBytes == [len |-> Unset, point |-> 0]

\* ------------------------------------------------------------ strings
\* A string is the sequence of its code points.
ALICE == <<65, 108, 105, 99, 101>>
BOB == <<66, 111, 98>>
EVE == <<69, 118, 101>>
EMPTY == <<>>

\* otherInfo values: none, one timestamp, another timestamp.
NoInfo == <<>>
Info1 == <<(<<49, 48>>)>>
Info2 == <<(<<49, 49>>)>>

\* The string of k code points c.
Repeat(c, k) == [i \in 1..k |-> c]
\* A userId of 255 bytes, and one of 128 two-byte code points (256 bytes).
UserId255 == Repeat(97, MaxFieldLen)
UserId256 == Repeat(233, (MaxFieldLen + 1) \div 2)
\* A userId of 256 one-byte code points ('a'.repeat(256)), and an otherInfo
\* whose one element is that string.
longUserId == Repeat(97, MaxFieldLen + 1)
LongInfo == <<longUserId>>

\* TextEncoder.encode: one byte for a code point below 128, two below 2048.
\* (A string of code points below 128 is its own encoding; the code points
\* lo..hi of another are encoded by halves, to keep the recursion flat.)
Utf8(str) ==
  LET RECURSIVE Enc(_, _)
      Enc(lo, hi) ==
        IF lo > hi THEN <<>>
        ELSE IF lo = hi
        THEN (IF str[lo] < 128 THEN <<str[lo]>>
              ELSE <<192 + (str[lo] \div 64), 128 + (str[lo] % 64)>>)
        ELSE Enc(lo, (lo + hi) \div 2) \o Enc(((lo + hi) \div 2) + 1, hi)
  IN IF \A i \in 1..Len(str) : str[i] < 128 THEN str ELSE Enc(1, Len(str))

\* A string of more than 255 bytes when UTF-8 encoded.
TooLong(str) == Len(Utf8(str)) > MaxFieldLen
UserIdTooLong ==
  InvalidArgumentError("userId is too long. It must be 255 bytes or less when UTF-8 encoded.")
OtherInfoTooLong ==
  InvalidArgumentError("Each otherInfo string must be 255 bytes or less when UTF-8 encoded.")

\* ------------------------------------------------------------ scalars
\* The scalar (a - b * H(h)) mod n.  b = 0 is the plain scalar a; h is then <<>>.
Scalar(a) == [a |-> mod(a, n), b |-> 0, h |-> <<>>]

\* A faulty variant of ResponseScalar: mod(v + x * challenge, n).
ResponseScalarSum(v, x, h) ==
  IF mod(x, n) = 0 THEN Scalar(v)
  ELSE [a |-> mod(v, n), b |-> mod(0 - x, n), h |-> h]

\* mod(v - x * challenge, n), for the challenge H(h)
ResponseScalar(v, x, h) ==
  IF mod(x, n) = 0 THEN Scalar(v)
  ELSE [a |-> mod(v, n), b |-> mod(x, n), h |-> h]

\* Whether V = g * r + gx * c for the challenge c = H(ch), as an identity in
\* the hash symbols: the constant parts agree and every symbol's
\* coefficient vanishes (leftSide/rightSide compared in affine coordinates).
SchnorrEquation(V, g, r, gx, ch) ==
  /\ PointMultiply(g, r.a) = V
  /\ IF r.b # 0 /\ r.h = ch
     THEN PointSubtract(gx, PointMultiply(g, r.b)) = ZERO
     ELSE PointMultiply(g, r.b) = ZERO /\ gx = ZERO

\* A faulty variant of CanMultiply: any scalar is taken.
CanMultiplyAny(r) == TRUE

\* Point.multiply(scalar) throws unless 0 < scalar < n.  The bytes of a
\* scalar r hold a number below 2^256: r.a >= n stands for bytes that hold
\* the residue r.a mod n plus n.
CanMultiply(r) == r.a \in 0..(n - 1) /\ ~(r.b = 0 /\ r.a = 0)

\* ------------------------------------------------------------ schnorr.mts
\* The bytes hashed for a challenge, field by field: each field is its
\* one-byte length followed by its bytes.
RECURSIVE InfoFields(_)
InfoFields(otherInfo) ==
  IF otherInfo = <<>> THEN <<>>
  ELSE <<Len(Utf8(Head(otherInfo))), Utf8(Head(otherInfo))>>
       \o InfoFields(Tail(otherInfo))

\* Faulty variants of ChallengeInput: the userId left out of the hash; the
\* otherInfo left out of it.
ChallengeInputNoUserId(userId, gx, gr, otherInfo) ==
  <<PointLen, toRawBytes(gx), PointLen, toRawBytes(gr)>> \o InfoFields(otherInfo)
ChallengeInputNoOtherInfo(userId, gx, gr, otherInfo) ==
  <<PointLen, toRawBytes(gx), PointLen, toRawBytes(gr),
    Len(Utf8(userId)), Utf8(userId)>>

ChallengeInput(userId, gx, gr, otherInfo) ==
  <<PointLen, toRawBytes(gx), PointLen, toRawBytes(gr),
    Len(Utf8(userId)), Utf8(userId)>> \o InfoFields(otherInfo)

\* A faulty variant of generateSchnorrChallenge: no length is checked.
generateSchnorrChallengeAnyLength(userId, gx, gr, otherInfo) ==
  IF ~CanEncode(gx) \/ ~CanEncode(gr)
  THEN [err |-> LibraryError("bad point: ZERO"), h |-> <<>>]
  ELSE [err |-> NoError, h |-> ChallengeInput(userId, gx, gr, otherInfo)]

\* generateSchnorrChallenge: [err, h], the challenge being H(h) mod n.
generateSchnorrChallenge(userId, gx, gr, otherInfo) ==
  IF ~CanEncode(gx) \/ ~CanEncode(gr)
  THEN [err |-> LibraryError("bad point: ZERO"), h |-> <<>>]
  ELSE IF Len(Utf8(userId)) > MaxFieldLen
  THEN [err |-> InvalidArgumentError("userId is too long. It must be 255 bytes or less when UTF-8 encoded."),
        h |-> <<>>]
  ELSE IF \E i \in 1..Len(otherInfo) : Len(Utf8(otherInfo[i])) > MaxFieldLen
  THEN [err |-> InvalidArgumentError("Each otherInfo string must be 255 bytes or less when UTF-8 encoded."),
        h |-> <<>>]
  ELSE [err |-> NoError, h |-> ChallengeInput(userId, gx, gr, otherInfo)]

\* A proof: [VLen][V][rLen][r], len bytes in all.
MakeProof(Vbytes, r) ==
  [len |-> 1 + Vbytes.len + 1 + ScalarLen, VLen |-> Vbytes.len, V |-> Vbytes,
   rLen |-> ScalarLen, r |-> r]
\* A proof field that is missing from a message object (undefined).
MissingProof ==
  [len |-> Unset, VLen |-> 0, V |-> MissingBytes, rLen |-> 0, r |-> Scalar(0)]
\* Bytes that are no proof (tests: new Uint8Array(32)).
GarbageProof ==
  [len |-> ScalarLen, VLen |-> 0, V |-> GarbageBytes, rLen |-> 0, r |-> Scalar(0)]

\* A faulty variant of verifySchnorrProof: the equation is not compared.
verifySchnorrProofLengthsOnly(peerUserId, gx, proof, g, otherInfo) ==
  IF proof.len # ProofLen
  THEN [err |-> VerificationError("Invalid proof, must be 33 + 32 + 2 bytes long"),
        ok |-> FALSE]
  ELSE IF proof.VLen # PointLen \/ proof.rLen # ScalarLen
  THEN [err |-> VerificationError("Invalid proof, V must be 33 bytes and r must be 32 bytes"),
        ok |-> FALSE]
  ELSE [err |-> NoError, ok |-> IsPointBytes(proof.V)]

\* A faulty variant of verifySchnorrProof: the length prefixes are looked at
\* before the length of the proof.
verifySchnorrProofPrefixesFirst(peerUserId, gx, proof, g, otherInfo) ==
  IF proof.VLen # PointLen \/ proof.rLen # ScalarLen
  THEN [err |-> VerificationError("Invalid proof, V must be 33 bytes and r must be 32 bytes"),
        ok |-> FALSE]
  ELSE IF proof.len # ProofLen
  THEN [err |-> VerificationError("Invalid proof, must be 33 + 32 + 2 bytes long"),
        ok |-> FALSE]
  ELSE IF ~IsPointBytes(proof.V)
  THEN [err |-> NoError, ok |-> FALSE]
  ELSE LET V == fromHex(proof.V)
           c == generateSchnorrChallenge(peerUserId, gx, V, otherInfo)
       IN IF c.err # NoError THEN [err |-> c.err, ok |-> FALSE]
          ELSE IF ~CanMultiply(proof.r)
          THEN [err |-> LibraryError("invalid scalar: out of range"),
                ok |-> FALSE]
          ELSE [err |-> NoError,
                ok |-> SchnorrEquation(V, g, proof.r, gx, c.h)]

\* verifySchnorrProof: [err, ok]
verifySchnorrProof(peerUserId, gx, proof, g, otherInfo) ==
  IF proof.len # ProofLen
  THEN [err |-> VerificationError("Invalid proof, must be 33 + 32 + 2 bytes long"),
        ok |-> FALSE]
  ELSE IF proof.VLen # PointLen \/ proof.rLen # ScalarLen
  THEN [err |-> VerificationError("Invalid proof, V must be 33 bytes and r must be 32 bytes"),
        ok |-> FALSE]
  ELSE IF ~IsPointBytes(proof.V)
  THEN [err |-> NoError, ok |-> FALSE]
  ELSE LET V == fromHex(proof.V)
           c == generateSchnorrChallenge(peerUserId, gx, V, otherInfo)
       IN IF c.err # NoError THEN [err |-> c.err, ok |-> FALSE]
          ELSE IF ~CanMultiply(proof.r)
          THEN [err |-> LibraryError("invalid scalar: out of range"),
                ok |-> FALSE]
          ELSE [err |-> NoError,
                ok |-> SchnorrEquation(V, g, proof.r, gx, c.h)]

\* generateSchnorrProof, v being the value drawn by randomPrivateKey():
\* [err, proof]
generateSchnorrProof(userId, x, gx, g, otherInfo, v) ==
  LET V == PointMultiply(g, v)
      c == generateSchnorrChallenge(userId, gx, V, otherInfo)
      proof == MakeProof(toRawBytes(V), ResponseScalar(v, x, c.h))
      check == verifySchnorrProof(userId, gx, proof, g, otherInfo)
  IN IF c.err # NoError THEN [err |-> c.err, proof |-> MissingProof]
     ELSE IF check.err # NoError THEN [err |-> check.err, proof |-> MissingProof]
     ELSE IF ~check.ok
     THEN [err |-> JPakeError("Generated Schnorr proof is invalid"),
           proof |-> MissingProof]
     ELSE [err |-> NoError, proof |-> proof]

\* ------------------------------------------------------------ JPake.mts
\* Round1Result and Round2Result
MissingRound1 ==
  [G1 |-> MissingBytes, G2 |-> MissingBytes,
   ZKPx1 |-> MissingProof, ZKPx2 |-> MissingProof]
MissingRound2 == [A |-> MissingBytes, ZKPx2s |-> MissingProof]
\* sha3_256 of the encoding of a point, and the absence of a key
sha3_256(bytes) == [sha3 |-> bytes]
NoKey == [sha3 |-> MissingBytes]

\* !x for a byte array, a string, a session field
Present(bytes) == bytes.len # Unset

\* constructor (userId is nonempty: an empty one throws and makes no session)
NewSession(userId, otherInfo) ==
  [userId |-> userId, otherInfo |-> otherInfo, state |-> INITIAL,
   x1 |-> Unset, x2 |-> Unset, G1 |-> Unset, G2 |-> Unset,
   G3 |-> Unset, G4 |-> Unset, B |-> Unset, x2s |-> Unset,
   ZKPx2sBob |-> MissingProof, bobUserId |-> EMPTY]

\* A faulty variant of verifyPeerProof: the userIds are not compared.
verifyPeerProofNoIdCheck(S, peerUserId, gx, proof, g) ==
  IF peerUserId = EMPTY
  THEN [err |-> InvalidArgumentError("PeerUserId is empty."), ok |-> FALSE]
  ELSE verifySchnorrProof(peerUserId, gx, proof, g, S.otherInfo)

\* verifyPeerProof: [err, ok]
verifyPeerProof(S, peerUserId, gx, proof, g) ==
  IF S.userId = peerUserId
  THEN [err |-> VerificationError("Proof verification failed, userIds are equal."),
        ok |-> FALSE]
  ELSE IF peerUserId = EMPTY
  THEN [err |-> InvalidArgumentError("PeerUserId is empty."), ok |-> FALSE]
  ELSE verifySchnorrProof(peerUserId, gx, proof, g, S.otherInfo)

\* A faulty variant of round1: the state is not checked.
round1AnyState(S, x1, x2, v1, v2) ==
  LET S1 == [S EXCEPT !.x1 = x1, !.x2 = x2,
                      !.G1 = PointMultiply(G, x1),
                      !.G2 = PointMultiply(G, x2)]
      ZKPx1 == generateSchnorrProof(S.userId, x1, S1.G1, G, S.otherInfo, v1)
      ZKPx2 == generateSchnorrProof(S.userId, x2, S1.G2, G, S.otherInfo, v2)
  IN [sess |-> [S1 EXCEPT !.state = ROUND1FINISHED],
      err |-> NoError,
      out |-> [G1 |-> toRawBytes(S1.G1), G2 |-> toRawBytes(S1.G2),
               ZKPx1 |-> ZKPx1.proof, ZKPx2 |-> ZKPx2.proof]]

\* round1, x1 and x2 and the two proofs' v being the values drawn at random:
\* [sess, err, out]
round1(S, x1, x2, v1, v2) ==
  IF S.state # INITIAL
  THEN [sess |-> S,
        err |-> InvalidStateError("Round 1 can only be executed in INITIAL state"),
        out |-> MissingRound1]
  ELSE LET S1 == [S EXCEPT !.x1 = x1, !.x2 = x2,
                           !.G1 = PointMultiply(G, x1),
                           !.G2 = PointMultiply(G, x2)]
           ZKPx1 == generateSchnorrProof(S.userId, x1, S1.G1, G, S.otherInfo, v1)
           ZKPx2 == generateSchnorrProof(S.userId, x2, S1.G2, G, S.otherInfo, v2)
       IN IF ZKPx1.err # NoError
          THEN [sess |-> S1, err |-> ZKPx1.err, out |-> MissingRound1]
          ELSE IF ZKPx2.err # NoError
          THEN [sess |-> S1, err |-> ZKPx2.err, out |-> MissingRound1]
          ELSE [sess |-> [S1 EXCEPT !.state = ROUND1FINISHED],
                err |-> NoError,
                out |-> [G1 |-> toRawBytes(S1.G1), G2 |-> toRawBytes(S1.G2),
                         ZKPx1 |-> ZKPx1.proof, ZKPx2 |-> ZKPx2.proof]]

\* A faulty variant of sIsZeroModN: s compared with 0 without reducing it.
sIsZero(s) == s = 0

\* mod(sBigInt, n) === 0n
sIsZeroModN(s) == mod(s, n) = 0

\* Faulty variants of x2TimesS: s left out; the product not reduced mod n.
x2TimesSWithoutS(x2, s) == mod(x2, n)
x2TimesSUnreduced(x2, s) == x2 * s

\* x2s = mod(x2 * s, n)
x2TimesS(x2, s) == mod(x2 * mod(s, n), n)

\* round2 from the assignment of bobUserId on (the arguments are present,
\* the points decode, s mod n is not 0)
round2Verified(S, round1ResultBob, s, bobUserId, v) ==
  LET round1ResultBobG1 == fromHex(round1ResultBob.G1)
      round1ResultBobG2 == fromHex(round1ResultBob.G2)
      S1 == [S EXCEPT !.bobUserId = bobUserId]
      isValidZKP == verifyPeerProof(S1, bobUserId, round1ResultBobG1,
                                    round1ResultBob.ZKPx1, G)
      x2s == x2TimesS(S.x2, s)
      S2 == [S1 EXCEPT !.G3 = round1ResultBobG1, !.G4 = round1ResultBobG2,
                       !.x2s = x2s]
      generator == PointAdd(PointAdd(S2.G1, S2.G3), S2.G4)
      A == PointMultiply(generator, x2s)
      ZKPx2s == generateSchnorrProof(S.userId, x2s, A, generator, S.otherInfo, v)
  IN IF isValidZKP.err # NoError
     THEN [sess |-> S1, err |-> isValidZKP.err, out |-> MissingRound2]
     ELSE IF ~isValidZKP.ok
     THEN [sess |-> S1, err |-> VerificationError("ZKP verification failed"),
           out |-> MissingRound2]
     ELSE IF ZKPx2s.err # NoError
     THEN [sess |-> S2, err |-> ZKPx2s.err, out |-> MissingRound2]
     ELSE IF generator = ZERO
     THEN [sess |-> S2,
           err |-> VerificationError("Invalid point: The new generator is the point at infinity"),
           out |-> MissingRound2]
     ELSE [sess |-> [S2 EXCEPT !.state = ROUND2FINISHED], err |-> NoError,
           out |-> [A |-> toRawBytes(A), ZKPx2s |-> ZKPx2s.proof]]

\* A faulty variant of round2: s is looked at before the points are decoded.
round2SBeforePoints(S, round1ResultBob, s, bobUserId, v) ==
  IF S.state # ROUND1FINISHED
  THEN [sess |-> S,
        err |-> InvalidStateError("Round 2 can only be executed after Round 1"),
        out |-> MissingRound2]
  ELSE IF \/ ~Present(round1ResultBob.G1) \/ ~Present(round1ResultBob.G2)
          \/ ~Present(round1ResultBob.ZKPx1) \/ ~Present(round1ResultBob.ZKPx2)
          \/ s = Unset \/ bobUserId = EMPTY
  THEN [sess |-> S,
        err |-> InvalidArgumentError("Missing required arguments for round 2"),
        out |-> MissingRound2]
  ELSE IF S.x2 = Unset \/ S.G1 = Unset
  THEN [sess |-> S, err |-> JPakeError("Missing required data for round 2"),
        out |-> MissingRound2]
  ELSE IF sIsZeroModN(s)
  THEN [sess |-> S,
        err |-> InvalidArgumentError("Invalid s: s MUST not be equal to 0 mod n"),
        out |-> MissingRound2]
  ELSE IF ~IsPointBytes(round1ResultBob.G1) \/ ~IsPointBytes(round1ResultBob.G2)
  THEN [sess |-> S,
        err |-> InvalidArgumentError("Invalid points received: G1 or G2 is not a valid ProjectivePoint"),
        out |-> MissingRound2]
  ELSE round2Verified(S, round1ResultBob, s, bobUserId, v)

\* round2, v being the value drawn for the proof of x2*s; s = Unset is a
\* missing s: [sess, err, out]
round2(S, round1ResultBob, s, bobUserId, v) ==
  IF S.state # ROUND1FINISHED
  THEN [sess |-> S,
        err |-> InvalidStateError("Round 2 can only be executed after Round 1"),
        out |-> MissingRound2]
  ELSE IF \/ ~Present(round1ResultBob.G1) \/ ~Present(round1ResultBob.G2)
          \/ ~Present(round1ResultBob.ZKPx1) \/ ~Present(round1ResultBob.ZKPx2)
          \/ s = Unset \/ bobUserId = EMPTY
  THEN [sess |-> S,
        err |-> InvalidArgumentError("Missing required arguments for round 2"),
        out |-> MissingRound2]
  ELSE IF S.x2 = Unset \/ S.G1 = Unset
  THEN [sess |-> S, err |-> JPakeError("Missing required data for round 2"),
        out |-> MissingRound2]
  ELSE IF ~IsPointBytes(round1ResultBob.G1) \/ ~IsPointBytes(round1ResultBob.G2)
  THEN [sess |-> S,
        err |-> InvalidArgumentError("Invalid points received: G1 or G2 is not a valid ProjectivePoint"),
        out |-> MissingRound2]
  ELSE IF sIsZeroModN(s)
  THEN [sess |-> S,
        err |-> InvalidArgumentError("Invalid s: s MUST not be equal to 0 mod n"),
        out |-> MissingRound2]
  ELSE round2Verified(S, round1ResultBob, s, bobUserId, v)

\* A faulty variant of setRound2ResultFromBob: the state is not checked.
setRound2ResultFromBobAnyState(S, round2ResultBob) ==
  IF ~Present(round2ResultBob.A) \/ ~Present(round2ResultBob.ZKPx2s)
  THEN [sess |-> S,
        err |-> InvalidArgumentError("Missing required arguments for setRound2ResultFromBob")]
  ELSE IF ~IsPointBytes(round2ResultBob.A)
  THEN [sess |-> S, err |-> LibraryError("Point is not on curve")]
  ELSE [sess |-> [S EXCEPT !.B = fromHex(round2ResultBob.A),
                           !.ZKPx2sBob = round2ResultBob.ZKPx2s,
                           !.state = ROUND2RESULTSRECEIVED],
        err |-> NoError]

\* A faulty variant of setRound2ResultFromBob: the state is advanced before
\* A is decoded.
setRound2ResultFromBobStateFirst(S, round2ResultBob) ==
  IF S.state # ROUND2FINISHED
  THEN [sess |-> S,
        err |-> InvalidStateError("Round 2 results can only be set after Round 2 is finished")]
  ELSE IF ~Present(round2ResultBob.A) \/ ~Present(round2ResultBob.ZKPx2s)
  THEN [sess |-> S,
        err |-> InvalidArgumentError("Missing required arguments for setRound2ResultFromBob")]
  ELSE IF ~IsPointBytes(round2ResultBob.A)
  THEN [sess |-> [S EXCEPT !.state = ROUND2RESULTSRECEIVED],
        err |-> LibraryError("Point is not on curve")]
  ELSE [sess |-> [S EXCEPT !.B = fromHex(round2ResultBob.A),
                           !.ZKPx2sBob = round2ResultBob.ZKPx2s,
                           !.state = ROUND2RESULTSRECEIVED],
        err |-> NoError]

\* setRound2ResultFromBob: [sess, err]
setRound2ResultFromBob(S, round2ResultBob) ==
  IF S.state # ROUND2FINISHED
  THEN [sess |-> S,
        err |-> InvalidStateError("Round 2 results can only be set after Round 2 is finished")]
  ELSE IF ~Present(round2ResultBob.A) \/ ~Present(round2ResultBob.ZKPx2s)
  THEN [sess |-> S,
        err |-> InvalidArgumentError("Missing required arguments for setRound2ResultFromBob")]
  ELSE IF ~IsPointBytes(round2ResultBob.A)
  THEN [sess |-> S, err |-> LibraryError("Point is not on curve")]
  ELSE [sess |-> [S EXCEPT !.B = fromHex(round2ResultBob.A),
                           !.ZKPx2sBob = round2ResultBob.ZKPx2s,
                           !.state = ROUND2RESULTSRECEIVED],
        err |-> NoError]

\* A faulty variant of keyGenerator: the generator of round2.
keyGeneratorOfRound2(S) == PointAdd(PointAdd(S.G1, S.G3), S.G4)

\* deriveSharedKey's generator, G1 + G3 + G2: the one the peer's proof of
\* x2*s was made for
keyGenerator(S) == PointAdd(PointAdd(S.G1, S.G3), S.G2)

\* A faulty variant of Ka: G3 taken for G4.
KaFromG3(S) == PointMultiply(PointSubtract(S.B, PointMultiply(S.G3, S.x2s)), S.x2)

\* Ka = (B - G4 * x2s) * x2
Ka(S) == PointMultiply(PointSubtract(S.B, PointMultiply(S.G4, S.x2s)), S.x2)

\* A faulty variant of deriveSharedKey: the peer's proof is not verified.
deriveSharedKeyUnverified(S) ==
  IF S.state # ROUND2RESULTSRECEIVED
  THEN [sess |-> S,
        err |-> InvalidStateError("Shared key can only be derived after receiving Round 2 results"),
        out |-> NoKey]
  ELSE IF \/ S.B = Unset \/ S.G1 = Unset \/ S.G2 = Unset \/ S.G3 = Unset
          \/ S.G4 = Unset \/ S.x2 = Unset \/ S.x2s = Unset
          \/ ~Present(S.ZKPx2sBob) \/ S.bobUserId = EMPTY
  THEN [sess |-> S, err |-> JPakeError("Missing required data for key derivation"),
        out |-> NoKey]
  ELSE IF S.B = ZERO
  THEN [sess |-> S,
        err |-> VerificationError("Invalid point: B is the point at infinity"),
        out |-> NoKey]
  ELSE IF ~CanEncode(Ka(S))
  THEN [sess |-> S, err |-> LibraryError("bad point: ZERO"), out |-> NoKey]
  ELSE [sess |-> [S EXCEPT !.state = KEYDERIVED], err |-> NoError,
        out |-> sha3_256(toRawBytes(Ka(S)))]

\* deriveSharedKey: [sess, err, out]
deriveSharedKey(S) ==
  IF S.state # ROUND2RESULTSRECEIVED
  THEN [sess |-> S,
        err |-> InvalidStateError("Shared key can only be derived after receiving Round 2 results"),
        out |-> NoKey]
  ELSE IF \/ S.B = Unset \/ S.G1 = Unset \/ S.G2 = Unset \/ S.G3 = Unset
          \/ S.G4 = Unset \/ S.x2 = Unset \/ S.x2s = Unset
          \/ ~Present(S.ZKPx2sBob) \/ S.bobUserId = EMPTY
  THEN [sess |-> S, err |-> JPakeError("Missing required data for key derivation"),
        out |-> NoKey]
  ELSE IF S.B = ZERO
  THEN [sess |-> S,
        err |-> VerificationError("Invalid point: B is the point at infinity"),
        out |-> NoKey]
  ELSE LET generator == keyGenerator(S)
           isValidZKP == verifyPeerProof(S, S.bobUserId, S.B, S.ZKPx2sBob, generator)
           K == Ka(S)
       IN IF isValidZKP.err # NoError
          THEN [sess |-> S, err |-> isValidZKP.err, out |-> NoKey]
          ELSE IF ~isValidZKP.ok
          THEN [sess |-> S, err |-> VerificationError("ZKP verification failed"),
                out |-> NoKey]
          ELSE IF ~CanEncode(K)
          THEN [sess |-> S, err |-> LibraryError("bad point: ZERO"), out |-> NoKey]
          ELSE [sess |-> [S EXCEPT !.state = KEYDERIVED], err |-> NoError,
                out |-> sha3_256(toRawBytes(K))]

\* ------------------------------------------------------------ JPakeThreePass
\* pass1: [sess, err, out]
pass1(S, x1, x2, v1, v2) == round1(S, x1, x2, v1, v2)

MissingPass2 == [round1Result |-> MissingRound1, round2Result |-> MissingRound2]

\* A faulty variant of pass2: when round2 raises, the session is put back as
\* it was before round1.
pass2RolledBack(S, peerRound1Result, s, peerUserId, x1, x2, v1, v2, v) ==
  LET r1 == round1(S, x1, x2, v1, v2)
      r2 == round2(r1.sess, peerRound1Result, s, peerUserId, v)
  IN IF r1.err # NoError
     THEN [sess |-> r1.sess, err |-> r1.err, out |-> MissingPass2,
           step |-> "round1"]
     ELSE IF r2.err # NoError
     THEN [sess |-> S, err |-> r2.err, out |-> MissingPass2,
           step |-> "round2"]
     ELSE [sess |-> r2.sess, err |-> NoError,
           out |-> [round1Result |-> r1.out, round2Result |-> r2.out],
           step |-> "none"]

\* pass2: round1, then round2 on the session round1 left: [sess, err, out,
\* step], step being the call that raised
pass2(S, peerRound1Result, s, peerUserId, x1, x2, v1, v2, v) ==
  LET r1 == round1(S, x1, x2, v1, v2)
      r2 == round2(r1.sess, peerRound1Result, s, peerUserId, v)
  IN IF r1.err # NoError
     THEN [sess |-> r1.sess, err |-> r1.err, out |-> MissingPass2,
           step |-> "round1"]
     ELSE IF r2.err # NoError
     THEN [sess |-> r2.sess, err |-> r2.err, out |-> MissingPass2,
           step |-> "round2"]
     ELSE [sess |-> r2.sess, err |-> NoError,
           out |-> [round1Result |-> r1.out, round2Result |-> r2.out],
           step |-> "none"]

\* A faulty variant of pass3: the peer's round-2 message is not stored.
pass3Round2Only(S, pass2Result, s, peerUserId, v) ==
  LET r2 == round2(S, pass2Result.round1Result, s, peerUserId, v)
  IN IF r2.err # NoError
     THEN [sess |-> r2.sess, err |-> r2.err, out |-> MissingRound2,
           step |-> "round2"]
     ELSE [sess |-> r2.sess, err |-> NoError, out |-> r2.out, step |-> "none"]

\* pass3: round2, then setRound2ResultFromBob: [sess, err, out, step]
pass3(S, pass2Result, s, peerUserId, v) ==
  LET r2 == round2(S, pass2Result.round1Result, s, peerUserId, v)
      set == setRound2ResultFromBob(r2.sess, pass2Result.round2Result)
  IN IF r2.err # NoError
     THEN [sess |-> r2.sess, err |-> r2.err, out |-> MissingRound2,
           step |-> "round2"]
     ELSE IF set.err # NoError
     THEN [sess |-> set.sess, err |-> set.err, out |-> MissingRound2,
           step |-> "setRound2ResultFromBob"]
     ELSE [sess |-> set.sess, err |-> NoError, out |-> r2.out,
           step |-> "none"]

\* receivePass3Results: [sess, err]
receivePass3Results(S, pass3Result) == setRound2ResultFromBob(S, pass3Result)

\* ------------------------------------------------------------ state
VARIABLES
  sess,   \* sess[i]: the JPake object i (of adapter i: its jpake field)
  ret,    \* ret[i]: what the calls on i have returned to the caller so far
  last,   \* last[i]: the last call on i: the operation, what it raised, the
          \*          state it was called in, and what was true of its arguments
  from,   \* from[i]: who produced the messages i has stored
  drawn,  \* drawn[i]: the random values i's successful calls drew, and the s
          \*           its round2 was given
  zk,     \* the calls of generateSchnorrProof and verifySchnorrProof made
          \* on their own: their inputs and what they returned
  ds      \* the calls of deriveSFromPassword: the password, the outcomes of
          \* the hash, where the call is, and what it returned

vars == <<sess, ret, last, from, drawn, zk, ds>>

Nonces == 1..MaxNonce
Vs == 1..MaxV
\* The password scalars callers pass: 0, two values in range, n, and a value
\* above n congruent to the first.  Unset is a missing s.
SValues == {0, 1, 50, n, n + 1}
UserIds == {ALICE, BOB, EVE}

\* Who produced a message: the userId, otherInfo and ephemeral public keys of
\* the producing session, and what was changed in the message afterwards.
Origin(uid, oi, G1, G2, tamper) ==
  [uid |-> uid, oi |-> oi, G1 |-> G1, G2 |-> G2, tamper |-> tamper]
NoOrigin == Origin(EMPTY, NoInfo, Unset, Unset, "none")

\* What was true of the arguments of a call that got past its state check.
\* round2: given: s and the peer userId are there; pts: the four fields are present and G1, G2 decode; s0: s is 0
\* mod n; same: the claimed peer userId is the session's own; zkp1, zkp2:
\* step: in a call of pass2 or pass3 that raised, the call inside it that
\* raised;
\* fields: the message has its four fields; reflected: the message is the
\* one round1 returned on this session (r1);
\* ZKPx1 verifies for G1, ZKPx2 for G2, under the claimed userId and the
\* session's otherInfo; wf1: ZKPx1 has the length and the prefixes of a
\* proof and its V decodes; genuine: the message is as a session's round1
\* returned it; uidMatch, infoMatch: that session's userId is the claimed
\* one, its otherInfo is this session's.
NoArgs ==
  [step |-> "none", given |-> FALSE, reflected |-> FALSE, fields |-> FALSE, pts |-> FALSE, s0 |-> FALSE, same |-> FALSE, wf1 |-> FALSE,
   zkp1 |-> FALSE, zkp2 |-> FALSE, genuine |-> FALSE, uidMatch |-> FALSE,
   infoMatch |-> FALSE]
ProofHolds(uid, bytes, proof, oi) ==
  /\ IsPointBytes(bytes)
  /\ LET c == verifySchnorrProof(uid, fromHex(bytes), proof, G, oi)
     IN c.err = NoError /\ c.ok
Round2Args(S, msg, s, uid, by, r1) ==
  [step |-> "none",
   given |-> s # Unset /\ uid # EMPTY,
   reflected |-> Present(r1.G1) /\ msg = r1,
   fields |-> /\ Present(msg.G1) /\ Present(msg.G2)
              /\ Present(msg.ZKPx1) /\ Present(msg.ZKPx2),
   pts |-> /\ Present(msg.G1) /\ Present(msg.G2)
           /\ Present(msg.ZKPx1) /\ Present(msg.ZKPx2)
           /\ IsPointBytes(msg.G1) /\ IsPointBytes(msg.G2),
   s0 |-> s # Unset /\ mod(s, n) = 0,
   same |-> uid = S.userId,
   wf1 |-> /\ msg.ZKPx1.len = ProofLen
           /\ msg.ZKPx1.VLen = PointLen /\ msg.ZKPx1.rLen = ScalarLen
           /\ IsPointBytes(msg.ZKPx1.V),
   zkp1 |-> ProofHolds(uid, msg.G1, msg.ZKPx1, S.otherInfo),
   zkp2 |-> ProofHolds(uid, msg.G2, msg.ZKPx2, S.otherInfo),
   genuine |-> by.tamper = "none",
   uidMatch |-> by.uid = uid,
   infoMatch |-> by.oi = S.otherInfo]

\* No call of the Schnorr functions on their own.
NoZk == [op |-> "none"]
\* No call of deriveSFromPassword.
NoDs == [pc |-> "none"]

Call(op, S, err, args) ==
  [op |-> op, err |-> err, pre |-> S.state, args |-> args]
NoCall == [op |-> "new", err |-> NoError, pre |-> INITIAL, args |-> NoArgs]

NoReturn == [r1 |-> MissingRound1, r2 |-> MissingRound2, key |-> NoKey]
\* r1, r2: who produced the round-1 message round2 accepted and the round-2
\* message setRound2ResultFromBob stored; msg1: that round-1 message.
NoFrom == [r1 |-> NoOrigin, r2 |-> NoOrigin, msg1 |-> MissingRound1]
NoDraw == [x1 |-> Unset, x2 |-> Unset, v1 |-> Unset, v2 |-> Unset,
           v |-> Unset, s |-> Unset]

\* ------------------------------------------------------------ other parties
\* Another party is a JPake object of its own, held by someone else; what it
\* sends is what round1 and round2 return on it.
Party(uid, oi, x1, x2) == [uid |-> uid, oi |-> oi, x1 |-> x1, x2 |-> x2]
\* Bob; a Bob created with another otherInfo; Eve; another session named Alice.
BobParty == Party(BOB, Info1, MaxNonce, 1)
OtherInfoParty == Party(BOB, Info2, MaxNonce, 1)
EveParty == Party(EVE, Info1, 1, MaxNonce)
AlsoAliceParty == Party(ALICE, Info1, MaxNonce, MaxNonce)
Parties == {BobParty, OtherInfoParty, EveParty, AlsoAliceParty}

PartyAfterRound1 ==
  [P \in Parties |-> round1(NewSession(P.uid, P.oi), P.x1, P.x2, MaxV, MaxV)]
PartyOrigin(P, tamper) ==
  Origin(P.uid, P.oi, PointMultiply(G, P.x1), PointMultiply(G, P.x2), tamper)

\* The round-1 messages that can be handed to session i, each with who
\* produced it: what a party's round1 returned; Bob's with G2 replaced by
\* another point (the next one, or the one that makes G1 + G3 + G4 the point
\* at infinity), the proof for it left as it was; Bob's with ZKPx2 replaced
\* by bytes that are no proof; a message of bytes that are no points; an
\* object without fields; and what round1 returned on i itself.
Round1Inputs(i) ==
  LET own == sess[i]
      Sent(P) == PartyAfterRound1[P].out
      Shifted(P) ==
        {PointAdd(PointMultiply(G, P.x2), G)}
        \cup (IF own.G1 = Unset THEN {}
              ELSE {PointSubtract(ZERO, PointAdd(own.G1, PointMultiply(G, P.x1)))})
  IN {[msg |-> Sent(P), by |-> PartyOrigin(P, "none")] : P \in Parties}
     \cup {[msg |-> [Sent(BobParty) EXCEPT !.G2 = toRawBytes(Q)],
            by |-> PartyOrigin(BobParty, "G2")] : Q \in Shifted(BobParty) \ {ZERO}}
     \cup {[msg |-> [Sent(BobParty) EXCEPT !.ZKPx2 = GarbageProof],
            by |-> PartyOrigin(BobParty, "ZKPx2")]}
     \cup {[msg |-> [G1 |-> GarbageBytes, G2 |-> GarbageBytes,
                     ZKPx1 |-> GarbageProof, ZKPx2 |-> GarbageProof],
            by |-> Origin(EVE, NoInfo, Unset, Unset, "garbage")]}
     \cup {[msg |-> MissingRound1,
            by |-> Origin(EVE, NoInfo, Unset, Unset, "missing")]}
     \cup (IF Present(ret[i].r1.G1)
           THEN {[msg |-> ret[i].r1,
                  by |-> Origin(own.userId, own.otherInfo, own.G1, own.G2, "none")]}
           ELSE {})

\* The calls of round2 on session i: in the state round2 is meant for, Bob's
\* message with every s and userId, and with a userId of 256 bytes (also
\* with ZKPx1 replaced by bytes that are no proof), every other message
\* (the session's own among them, this one with the long userId too) with a
\* good s and every userId, and those that are not as a session returned them with a
\* zero s too; in any other state, where round2 returns before it reads an
\* argument, a good call and one without arguments.
Round2Calls(i) ==
  LET bob == [msg |-> PartyAfterRound1[BobParty].out, by |-> PartyOrigin(BobParty, "none")]
      C(in, s, uid) == [msg |-> in.msg, by |-> in.by, s |-> s, uid |-> uid]
  IN IF sess[i].state = ROUND1FINISHED
     THEN {C(bob, s, uid) : s \in SValues \cup {Unset}, uid \in UserIds \cup {EMPTY}}
          \cup {C(bob, 1, longUserId),
                C([msg |-> [bob.msg EXCEPT !.ZKPx1 = GarbageProof],
                   by |-> PartyOrigin(BobParty, "ZKPx1")], 1, longUserId)}
          \cup {C([msg |-> ret[i].r1,
                   by |-> Origin(sess[i].userId, sess[i].otherInfo,
                                 sess[i].G1, sess[i].G2, "none")], 1, longUserId)}
          \cup {C(in, 1, uid) : in \in Round1Inputs(i), uid \in UserIds \cup {EMPTY}}
          \cup {C(in, 0, uid) : in \in {x \in Round1Inputs(i) : x.by.tamper # "none"},
                                uid \in UserIds \cup {EMPTY}}
     ELSE {C(bob, 1, BOB),
           C([msg |-> MissingRound1, by |-> NoOrigin], Unset, EMPTY)}

\* The round-2 messages that can be handed to session i, each with who
\* produced it: what round2 returned on a party that was given i's round-1
\* message, i's userId and some s; a message of bytes that are no point; an
\* object without fields; and what round2 returned on i itself.  In a state
\* setRound2ResultFromBob is not meant for, the parties' messages are left out.
Round2Inputs(i) ==
  LET own == sess[i]
      Answer(P, s) == round2(PartyAfterRound1[P].sess, ret[i].r1, s, own.userId, MaxV)
  IN (IF own.state = ROUND2FINISHED
      THEN {[msg |-> Answer(c[1], c[2]).out, by |-> PartyOrigin(c[1], "none")]
            : c \in {c \in Parties \X {1, 50} : Answer(c[1], c[2]).err = NoError}}
      ELSE {})
     \cup {[msg |-> [A |-> GarbageBytes, ZKPx2s |-> GarbageProof],
            by |-> Origin(EVE, NoInfo, Unset, Unset, "garbage")]}
     \cup {[msg |-> MissingRound2,
            by |-> Origin(EVE, NoInfo, Unset, Unset, "missing")]}
     \cup (IF Present(ret[i].r2.A)
           THEN {[msg |-> ret[i].r2,
                  by |-> Origin(own.userId, own.otherInfo, own.G1, own.G2, "none")]}
           ELSE {})

\* A faulty variant of Returned: the state is kept in one place for all
\* sessions (a static field), so a call on i sets it for the others too.
ReturnedStatic(i, r, field, op, args) ==
  /\ sess' = [j \in DOMAIN sess |->
               IF j = i THEN r.sess ELSE [sess[j] EXCEPT !.state = r.sess.state]]
  /\ ret' = IF r.err = NoError THEN [ret EXCEPT ![i][field] = r.out] ELSE ret
  /\ UNCHANGED <<zk, ds>>
  /\ last' = [last EXCEPT ![i] = Call(op, sess[i], r.err, args)]

\* ------------------------------------------------------------ actions
\* What a call leaves: the session, what it returned, the record of the call.
Returned(i, r, field, op, args) ==
  /\ sess' = [sess EXCEPT ![i] = r.sess]
  /\ ret' = IF r.err = NoError THEN [ret EXCEPT ![i][field] = r.out] ELSE ret
  /\ UNCHANGED <<zk, ds>>
  /\ last' = [last EXCEPT ![i] = Call(op, sess[i], r.err, args)]

\* The values round1 may draw in a call on session i, <<x1, x2, v1, v2>>: a
\* call that raises on the state draws nothing, and raises whatever they are.
Round1Draws(i) ==
  IF sess[i].state = INITIAL THEN Nonces \X Nonces \X Vs \X Vs
  ELSE {<<MaxNonce, MaxNonce, MaxV, MaxV>>}

\* A call of round1 on session i.
Round1(i) ==
  \E d \in Round1Draws(i) :
    LET r == round1(sess[i], d[1], d[2], d[3], d[4])
    IN /\ Returned(i, r, "r1", "round1", NoArgs)
       /\ from' = from
       /\ drawn' = IF r.err = NoError
                   THEN [drawn EXCEPT ![i].x1 = d[1], ![i].x2 = d[2],
                                      ![i].v1 = d[3], ![i].v2 = d[4]]
                   ELSE drawn

\* The call c of round2 on session i, v being the value drawn.
CallRound2(i, c, v) ==
  LET r == round2(sess[i], c.msg, c.s, c.uid, v)
  IN /\ Returned(i, r, "r2", "round2",
                 IF sess[i].state = ROUND1FINISHED
                 THEN Round2Args(sess[i], c.msg, c.s, c.uid, c.by, ret[i].r1)
                 ELSE NoArgs)
     /\ from' = IF r.err = NoError
                THEN [from EXCEPT ![i].r1 = c.by, ![i].msg1 = c.msg] ELSE from
     /\ drawn' = IF r.err = NoError
                 THEN [drawn EXCEPT ![i].v = v, ![i].s = c.s] ELSE drawn

\* The values round2 may draw in the call c on session i: a call that raises
\* before it generates its proof draws nothing, and raises whatever v is.
Round2Draws(i, c) ==
  IF round2(sess[i], c.msg, c.s, c.uid, MaxV).err = NoError THEN Vs ELSE {MaxV}

\* A call of round2 on session i.
Round2(i) ==
  \E c \in Round2Calls(i) : \E v \in Round2Draws(i, c) : CallRound2(i, c, v)

\* The call of setRound2ResultFromBob on session i with the message in.
CallSetRound2ResultFromBob(i, in) ==
  LET r == setRound2ResultFromBob(sess[i], in.msg)
  IN /\ sess' = [sess EXCEPT ![i] = r.sess]
     /\ ret' = ret
     /\ UNCHANGED <<zk, ds>>
     /\ last' = [last EXCEPT ![i] =
                   Call("setRound2ResultFromBob", sess[i], r.err, NoArgs)]
     /\ from' = IF r.err = NoError THEN [from EXCEPT ![i].r2 = in.by] ELSE from
     /\ drawn' = drawn

\* A call of setRound2ResultFromBob on session i, with any of the messages.
SetRound2ResultFromBob(i) ==
  \E in \in Round2Inputs(i) : CallSetRound2ResultFromBob(i, in)

\* A call of deriveSharedKey on session i.
DeriveSharedKey(i) ==
  /\ Returned(i, deriveSharedKey(sess[i]), "key", "deriveSharedKey", NoArgs)
  /\ from' = from
  /\ drawn' = drawn

\* How the one session is constructed: Alice's; one with a userId of 256
\* bytes; one with an otherInfo element of 256 bytes.
Constructions == {<<ALICE, Info1>>, <<UserId256, Info1>>, <<ALICE, LongInfo>>}

\* One session and everything anyone can hand to it.
Init ==
  /\ zk = NoZk /\ ds = NoDs
  /\ \E c \in Constructions : sess = [i \in {1} |-> NewSession(c[1], c[2])]
  /\ ret = [i \in {1} |-> NoReturn]
  /\ last = [i \in {1} |-> NoCall]
  /\ from = [i \in {1} |-> NoFrom]
  /\ drawn = [i \in {1} |-> NoDraw]

Next ==
  \E i \in DOMAIN sess :
    \/ Round1(i)
    \/ Round2(i)
    \/ SetRound2ResultFromBob(i)
    \/ DeriveSharedKey(i)

Spec == Init /\ [][Next]_vars

\* ------------------------------------------------------------ two sessions
\* Alice and Bob, created with the same otherInfo, each handing the other
\* what its calls returned: round1, round2 on the other's round-1 message,
\* setRound2ResultFromBob on the other's round-2 message, deriveSharedKey.
\* Each is given an s of its own, so that they agree, agree mod n, or differ.
Peer(i) == 3 - i
PairS(i) == IF i = 1 THEN {1, 50, n + 1} ELSE {1, 50}
SessionOrigin(i) ==
  Origin(sess[i].userId, sess[i].otherInfo, sess[i].G1, sess[i].G2, "none")

PairRound1(i) ==
  /\ sess[i].state = INITIAL
  /\ Round1(i)

PairRound2(i) ==
  /\ sess[i].state = ROUND1FINISHED
  /\ Present(ret[Peer(i)].r1.G1)
  /\ \E s \in PairS(i), v \in Vs :
       CallRound2(i, [msg |-> ret[Peer(i)].r1, by |-> SessionOrigin(Peer(i)),
                      s |-> s, uid |-> sess[Peer(i)].userId], v)

PairSetRound2ResultFromBob(i) ==
  /\ sess[i].state = ROUND2FINISHED
  /\ Present(ret[Peer(i)].r2.A)
  /\ CallSetRound2ResultFromBob(i, [msg |-> ret[Peer(i)].r2,
                                    by |-> SessionOrigin(Peer(i))])

PairDeriveSharedKey(i) ==
  /\ sess[i].state = ROUND2RESULTSRECEIVED
  /\ DeriveSharedKey(i)

InitPair ==
  \E oi \in {NoInfo, Info1} :
    /\ zk = NoZk /\ ds = NoDs
    /\ sess = [i \in {1, 2} |-> NewSession(IF i = 1 THEN ALICE ELSE BOB, oi)]
    /\ ret = [i \in {1, 2} |-> NoReturn]
    /\ last = [i \in {1, 2} |-> NoCall]
    /\ from = [i \in {1, 2} |-> NoFrom]
    /\ drawn = [i \in {1, 2} |-> NoDraw]

NextPair ==
  \E i \in {1, 2} :
    \/ PairRound1(i)
    \/ PairRound2(i)
    \/ PairSetRound2ResultFromBob(i)
    \/ PairDeriveSharedKey(i)

SpecPair == InitPair /\ [][NextPair]_vars

\* ------------------------------------------------------------ three passes
\* Two JPakeThreePass objects, the initiator Alice (1) and the responder Bob
\* (2); sess[i] is the JPake object each holds, created without otherInfo.
\* Each hands the other what its calls returned, and is given an s of its own.
ThreePass1 ==
  /\ sess[1].state = INITIAL
  /\ \E x1 \in Nonces, x2 \in Nonces, v1 \in Vs, v2 \in Vs :
       /\ Returned(1, pass1(sess[1], x1, x2, v1, v2), "r1", "pass1", NoArgs)
       /\ from' = from
       /\ drawn' = [drawn EXCEPT ![1].x1 = x1, ![1].x2 = x2,
                                 ![1].v1 = v1, ![1].v2 = v2]

\* What a call of pass2 on the responder leaves, r being what it returned.
ReturnedPass2(r) ==
  /\ sess' = [sess EXCEPT ![2] = r.sess]
  /\ ret' = IF r.err = NoError
            THEN [ret EXCEPT ![2].r1 = r.out.round1Result,
                             ![2].r2 = r.out.round2Result]
            ELSE ret
  /\ UNCHANGED <<zk, ds>>
  /\ last' = [last EXCEPT ![2] = Call("pass2", sess[2], r.err, NoArgs)]
  /\ from' = IF r.err = NoError
             THEN [from EXCEPT ![2].r1 = SessionOrigin(1), ![2].msg1 = ret[1].r1]
             ELSE from

ThreePass2 ==
  /\ sess[2].state = INITIAL
  /\ Present(ret[1].r1.G1)
  /\ \E x1 \in Nonces, x2 \in Nonces, v1 \in Vs, v2 \in Vs,
        s \in {1, 50}, v \in Vs :
       /\ ReturnedPass2(pass2(sess[2], ret[1].r1, s, sess[1].userId,
                              x1, x2, v1, v2, v))
       /\ drawn' = [drawn EXCEPT ![2] = [x1 |-> x1, x2 |-> x2, v1 |-> v1,
                                         v2 |-> v2, v |-> v, s |-> s]]

\* What a call of pass3 on the initiator leaves, r being what it returned.
ReturnedPass3(r) ==
  /\ Returned(1, r, "r2", "pass3", NoArgs)
  /\ from' = IF r.err = NoError
             THEN [from EXCEPT ![1].r1 = SessionOrigin(2),
                               ![1].r2 = SessionOrigin(2),
                               ![1].msg1 = ret[2].r1]
             ELSE from

ThreePass3 ==
  /\ sess[1].state = ROUND1FINISHED
  /\ Present(ret[2].r2.A)
  /\ \E s \in {1, 50}, v \in Vs :
       /\ ReturnedPass3(pass3(sess[1], [round1Result |-> ret[2].r1,
                                        round2Result |-> ret[2].r2],
                              s, sess[2].userId, v))
       /\ drawn' = [drawn EXCEPT ![1].v = v, ![1].s = s]

\* What a call of receivePass3Results on the responder leaves.
ReturnedReceivePass3Results(r) ==
  /\ sess' = [sess EXCEPT ![2] = r.sess]
  /\ ret' = ret
  /\ UNCHANGED <<zk, ds>>
  /\ last' = [last EXCEPT ![2] =
                Call("receivePass3Results", sess[2], r.err, NoArgs)]
  /\ from' = IF r.err = NoError
             THEN [from EXCEPT ![2].r2 = SessionOrigin(1)] ELSE from
  /\ drawn' = drawn

ThreeReceivePass3Results ==
  /\ sess[2].state = ROUND2FINISHED
  /\ Present(ret[1].r2.A)
  /\ ReturnedReceivePass3Results(receivePass3Results(sess[2], ret[1].r2))

ThreeDeriveSharedKey(i) ==
  /\ sess[i].state = ROUND2RESULTSRECEIVED
  /\ DeriveSharedKey(i)

InitThreePass ==
  /\ zk = NoZk /\ ds = NoDs
  /\ sess = [i \in {1, 2} |-> NewSession(IF i = 1 THEN ALICE ELSE BOB, NoInfo)]
  /\ ret = [i \in {1, 2} |-> NoReturn]
  /\ last = [i \in {1, 2} |-> NoCall]
  /\ from = [i \in {1, 2} |-> NoFrom]
  /\ drawn = [i \in {1, 2} |-> NoDraw]

NextThreePass ==
  \/ ThreePass1
  \/ ThreePass2
  \/ ThreePass3
  \/ ThreeReceivePass3Results
  \/ \E i \in {1, 2} : ThreeDeriveSharedKey(i)

SpecThreePass == InitThreePass /\ [][NextThreePass]_vars

\* ------------------------------------------------------------ properties
\* The state each operation may be called in.
SourceState(op) ==
  CASE op = "round1" -> INITIAL
    [] op = "round2" -> ROUND1FINISHED
    [] op = "setRound2ResultFromBob" -> ROUND2FINISHED
    [] op = "deriveSharedKey" -> ROUND2RESULTSRECEIVED
    [] OTHER -> Unset

ZKPFailed == VerificationError("ZKP verification failed")
UserIdsEqual == VerificationError("Proof verification failed, userIds are equal.")

\* The last call on i was a round2 that got past its state check.
Round2Ran(i) == last[i].op = "round2" /\ last[i].pre = ROUND1FINISHED
\* ... and past the checks of its arguments being there, the points decoding
\* and s not being 0 mod n.
Round2Checked(i) ==
  /\ Round2Ran(i)
  /\ last[i].args.given /\ last[i].args.pts /\ ~last[i].args.s0

\* C2 as the spec states it: round2 succeeds only if both ZKPx1 verifies for
\* G3 and ZKPx2 verifies for G4, under the peer userId, base G and the
\* session's otherInfo.  The code verifies ZKPx1 only, so this is violated.
C2_BothProofsVerified ==
  \A i \in DOMAIN sess :
    (Round2Ran(i) /\ last[i].err = NoError)
      => (last[i].args.zkp1 /\ last[i].args.zkp2)

\* C3: an operation called in a state other than its one source state raises
\* InvalidState and leaves the state and every field of the session as they
\* were; so an operation succeeds from its source state only.
C3_OneSourceState ==
  [][\A i \in DOMAIN sess :
       (last'[i].pre = sess[i].state /\ SourceState(last'[i].op) # sess[i].state)
         => (last'[i].err.kind = "InvalidStateError" /\ sess'[i] = sess[i])]_vars
C3_Witness ==
  /\ sess[1].state = KEYDERIVED
  /\ last[1].op = "setRound2ResultFromBob"
  /\ last[1].err.kind = "InvalidStateError"

\* C4: the state never moves backwards, a call that succeeds moves it to the
\* next state in the order INITIAL, ROUND1FINISHED, ROUND2FINISHED,
\* ROUND2RESULTSRECEIVED, KEYDERIVED, and a call that raises leaves it.
C4_Monotonic ==
  [][\A i \in DOMAIN sess :
       /\ sess'[i].state \in {sess[i].state, sess[i].state + 1}
       /\ sess'[i].state \in INITIAL..KEYDERIVED
       /\ (sess'[i] # sess[i] \/ last'[i] # last[i])
            => (last'[i].err = NoError <=> sess'[i].state = sess[i].state + 1)]_vars
C4_Witness ==
  /\ sess[1].state = KEYDERIVED
  /\ last[1].op = "round1"
  /\ last[1].err # NoError

\* C5 as the spec states it: once a call on a session has raised, every later
\* call on that session raises.  The code keeps no record of a failure, so a
\* call after a failed one succeeds whenever the state and arguments allow it.
C5_ErrorsFatal ==
  [][\A i \in DOMAIN sess : last[i].err # NoError => last'[i].err # NoError]_vars

\* The round-2 message session i stored was produced by another party than
\* the round-1 message it accepted: another userId, other ephemeral keys.
Substituted(i) ==
  /\ from[i].r2.uid # from[i].r1.uid
  /\ from[i].r2.G1 # from[i].r1.G1
  /\ from[i].r2.G2 # from[i].r1.G2

\* C7: when the stored round-2 message was produced by another party than the
\* accepted round-1 message, deriveSharedKey raises VerificationError("ZKP
\* verification failed") and returns no key, and the session is never in
\* KEYDERIVED.
C7_SubstitutionDetected ==
  \A i \in DOMAIN sess :
    (sess[i].state >= ROUND2RESULTSRECEIVED /\ Substituted(i))
      => /\ sess[i].state # KEYDERIVED
         /\ ret[i].key = NoKey
         /\ (last[i].op = "deriveSharedKey" => last[i].err = ZKPFailed)
C7_Witness ==
  /\ Substituted(1)
  /\ from[1].r1.uid = BOB /\ from[1].r2.uid = EVE
  /\ last[1].op = "deriveSharedKey"
  /\ last[1].err = ZKPFailed

\* C8 as the spec states it: round2 given a round-1 message as a session with
\* userId U produced it, and a peer userId other than U, raises
\* VerificationError("ZKP verification failed").  Violated when the peer
\* userId given is the session's own: the error is then the one of C10
\* (and when it has more than 255 bytes: the error is then the one of C21).
C8_AnyOtherUserId ==
  \A i \in DOMAIN sess :
    (Round2Checked(i) /\ last[i].args.genuine /\ ~last[i].args.uidMatch)
      => last[i].err = ZKPFailed

\* C8: a proof generated under userId U does not verify under another
\* userId; so round2 given a round-1 message as a session with userId U
\* produced it, and a peer userId of at most 255 bytes that is neither U nor
\* the session's own, raises VerificationError("ZKP verification failed")
\* and the session stays in ROUND1FINISHED.
C8_BoundToUserId ==
  \A i \in DOMAIN sess :
    (Round2Ran(i) /\ last[i].args.genuine /\ ~last[i].args.uidMatch)
      => /\ ~last[i].args.zkp1 /\ ~last[i].args.zkp2
         /\ (Round2Checked(i) /\ ~last[i].args.same
               /\ ~TooLong(sess[i].bobUserId))
              => (last[i].err = ZKPFailed /\ sess[i].state = ROUND1FINISHED)
C8_Witness ==
  /\ Round2Checked(1)
  /\ last[1].args.genuine /\ ~last[1].args.uidMatch /\ ~last[1].args.same
  /\ last[1].args.infoMatch
  /\ last[1].err = ZKPFailed

\* C9: round2 on a session given the round-1 message of a session created
\* with another otherInfo, and that session's userId (not its own), raises
\* VerificationError("ZKP verification failed"); a session never gets beyond
\* ROUND1FINISHED on the message of a session with another otherInfo.
C9_BoundToOtherInfo ==
  \A i \in DOMAIN sess :
    /\ (Round2Ran(i) /\ last[i].args.genuine /\ ~last[i].args.infoMatch)
         => /\ ~last[i].args.zkp1 /\ ~last[i].args.zkp2
            /\ (Round2Checked(i) /\ last[i].args.uidMatch /\ ~last[i].args.same)
                 => (last[i].err = ZKPFailed /\ sess[i].state = ROUND1FINISHED)
    /\ sess[i].state >= ROUND2FINISHED => from[i].r1.oi = sess[i].otherInfo
C9_Witness ==
  /\ Round2Checked(1)
  /\ last[1].args.genuine /\ last[1].args.uidMatch /\ ~last[1].args.infoMatch
  /\ last[1].err = ZKPFailed

\* C10: round2 given the session's own userId as the peer's raises
\* VerificationError("Proof verification failed, userIds are equal."),
\* whatever the round-1 message and its proofs, and the session stays in
\* ROUND1FINISHED.
C10_IdentityCollision ==
  \A i \in DOMAIN sess :
    (Round2Checked(i) /\ last[i].args.same)
      => (last[i].err = UserIdsEqual /\ sess[i].state = ROUND1FINISHED)
C10_Witness ==
  /\ Round2Checked(1) /\ last[1].args.same
  /\ last[1].args.genuine /\ last[1].args.uidMatch /\ last[1].args.zkp1
  /\ last[1].err = UserIdsEqual

\* Session i of the pair has what the next call of its schedule needs.
PairReady(i) ==
  \/ sess[i].state = INITIAL
  \/ sess[i].state = ROUND1FINISHED /\ Present(ret[Peer(i)].r1.G1)
  \/ sess[i].state = ROUND2FINISHED /\ Present(ret[Peer(i)].r2.A)
  \/ sess[i].state = ROUND2RESULTSRECEIVED

\* Both sessions of the pair have derived a key.
BothDerived == \A i \in DOMAIN sess : sess[i].state = KEYDERIVED

\* C1: two sessions with distinct userIds and equal otherInfo, each running
\* round1, round2 on the other's round-1 message, setRound2ResultFromBob on
\* the other's round-2 message and deriveSharedKey, in any interleaving: no
\* call raises; until both are in KEYDERIVED one of them has what its next
\* call needs, and every call made has moved its session one state on, so
\* both get to KEYDERIVED; and when both were given the same s the two keys
\* returned are equal.
C1_KeyAgreement ==
  /\ \A i \in DOMAIN sess : last[i].err = NoError
  /\ \A i \in DOMAIN sess :
       last[i].op # "new" => sess[i].state = SourceState(last[i].op) + 1
  /\ BothDerived \/ \E i \in DOMAIN sess : PairReady(i)
  /\ (BothDerived /\ drawn[1].s = drawn[2].s)
       => (ret[1].key = ret[2].key /\ ret[1].key # NoKey)
C1_Witness ==
  /\ BothDerived
  /\ drawn[1].s = 50 /\ drawn[2].s = 50
  /\ sess[1].otherInfo = Info1
  /\ sess[1].x1 # sess[2].x1
  /\ ret[1].key = ret[2].key

\* The two-round schedule run on sessions created like the adapters' and
\* drawing what the adapters drew: what each call returns, in turn.
TwoRound(i) ==
  LET j == Peer(i)
      own == NewSession(sess[i].userId, NoInfo)
      peer == NewSession(sess[j].userId, NoInfo)
      r1 == round1(own, drawn[i].x1, drawn[i].x2, drawn[i].v1, drawn[i].v2)
      p1 == round1(peer, drawn[j].x1, drawn[j].x2, drawn[j].v1, drawn[j].v2)
      r2 == round2(r1.sess, p1.out, drawn[i].s, peer.userId, drawn[i].v)
      p2 == round2(p1.sess, r1.out, drawn[j].s, own.userId, drawn[j].v)
      set == setRound2ResultFromBob(r2.sess, p2.out)
      key == deriveSharedKey(set.sess)
  IN [new |-> own, r1 |-> r1, r2 |-> r2, set |-> set, key |-> key]

\* The session of adapter i is the one the two-round schedule has in the
\* same state, and the adapter returned what the two-round calls returned.
SameAsTwoRound(i) ==
  LET T == TwoRound(i)
  IN CASE sess[i].state = INITIAL -> sess[i] = T.new
       [] sess[i].state = ROUND1FINISHED ->
            sess[i] = T.r1.sess /\ ret[i].r1 = T.r1.out
       [] sess[i].state = ROUND2FINISHED ->
            /\ sess[i] = T.r2.sess
            /\ ret[i].r1 = T.r1.out /\ ret[i].r2 = T.r2.out
       [] sess[i].state = ROUND2RESULTSRECEIVED ->
            sess[i] = T.set.sess /\ ret[i].r2 = T.r2.out
       [] sess[i].state = KEYDERIVED ->
            sess[i] = T.key.sess /\ ret[i].key = T.key.out

\* The state each adapter call leaves the session in.
StateAfter(op) ==
  CASE op = "pass1" -> ROUND1FINISHED
    [] op = "pass2" -> ROUND2FINISHED
    [] op = "pass3" -> ROUND2RESULTSRECEIVED
    [] op = "receivePass3Results" -> ROUND2RESULTSRECEIVED
    [] op = "deriveSharedKey" -> KEYDERIVED
    [] OTHER -> INITIAL

\* Adapter i has what the next call of the three-pass schedule needs.
ThreeReady(i) ==
  \/ i = 1 /\ sess[1].state = INITIAL
  \/ i = 2 /\ sess[2].state = INITIAL /\ Present(ret[1].r1.G1)
  \/ i = 1 /\ sess[1].state = ROUND1FINISHED /\ Present(ret[2].r2.A)
  \/ i = 2 /\ sess[2].state = ROUND2FINISHED /\ Present(ret[1].r2.A)
  \/ sess[i].state = ROUND2RESULTSRECEIVED

\* C6: in the schedule pass1, pass2, pass3, receivePass3Results,
\* deriveSharedKey on both, no call raises, each call leaves the session in
\* the state, with the fields and with the results that the round1, round2,
\* setRound2ResultFromBob and deriveSharedKey calls of the two-round schedule
\* give on the same random values; until both are in KEYDERIVED one of them
\* has what its next call needs; and with the same s the keys are equal.
C6_ThreePassIsTwoRound ==
  /\ \A i \in DOMAIN sess :
       /\ last[i].err = NoError
       /\ sess[i].state = StateAfter(last[i].op)
       /\ SameAsTwoRound(i)
  /\ BothDerived \/ \E i \in DOMAIN sess : ThreeReady(i)
  /\ (BothDerived /\ drawn[1].s = drawn[2].s)
       => (ret[1].key = ret[2].key /\ ret[1].key # NoKey)
C6_Witness ==
  /\ BothDerived
  /\ last[1].op = "deriveSharedKey" /\ last[2].op = "deriveSharedKey"
  /\ drawn[1].s = 1 /\ drawn[2].s = 1
  /\ sess[1].x2 # sess[2].x2
  /\ SameAsTwoRound(1) /\ SameAsTwoRound(2)
  /\ ret[1].key = ret[2].key

\* C11 as the spec states it: whenever a session has a peer userId stored, it
\* differs from the session's own userId, also after calls that raised.
\* round2 stores the peer userId before it compares it with its own, so a
\* round2 that raises on equal userIds leaves the own userId stored.
C11_PeerIdDistinct ==
  \A i \in DOMAIN sess :
    sess[i].bobUserId # EMPTY => sess[i].bobUserId # sess[i].userId

\* The two sessions of the pair were given s values that differ modulo n.
PasswordsDiffer ==
  /\ drawn[1].s # Unset /\ drawn[2].s # Unset
  /\ mod(drawn[1].s, n) # mod(drawn[2].s, n)

\* C12: when the two sessions run the schedule with s values that differ
\* modulo n, no call raises, every call made has moved its session one state
\* on, and until both are in KEYDERIVED one of them has what its next call
\* needs: both get to KEYDERIVED.
C12_WrongPasswordNotRaised ==
  PasswordsDiffer
    => /\ \A i \in DOMAIN sess :
            /\ last[i].err = NoError
            /\ sess[i].state = SourceState(last[i].op) + 1
       /\ BothDerived \/ \E i \in DOMAIN sess : PairReady(i)
C12_Witness ==
  /\ PasswordsDiffer
  /\ drawn[1].s = 50 /\ drawn[2].s = 1
  /\ BothDerived
  /\ \A i \in DOMAIN sess :
       last[i].op = "deriveSharedKey" /\ last[i].err = NoError

\* C13: when both sessions have derived a key and their s values differ
\* modulo n, the two keys are different.
C13_PasswordSensitivity ==
  (BothDerived /\ PasswordsDiffer)
    => (ret[1].key # ret[2].key /\ ret[1].key # NoKey /\ ret[2].key # NoKey)
C13_Witness ==
  /\ BothDerived /\ PasswordsDiffer
  /\ drawn[1].s = n + 1 /\ drawn[2].s = 50
  /\ sess[1].x2 = sess[2].x2
  /\ ret[1].key # ret[2].key

InvalidS == InvalidArgumentError("Invalid s: s MUST not be equal to 0 mod n")

\* C14: round2 given an s that is 0 modulo n (0 or a multiple of n), its
\* other arguments being there and the points decoding, raises
\* InvalidArgumentError("Invalid s: s MUST not be equal to 0 mod n"); no
\* round-2 message has been returned and the session is in ROUND1FINISHED.
C14_ZeroSRejected ==
  \A i \in DOMAIN sess :
    (Round2Ran(i) /\ last[i].args.given /\ last[i].args.pts /\ last[i].args.s0)
      => /\ last[i].err = InvalidS
         /\ sess[i].state = ROUND1FINISHED
         /\ ret[i].r2 = MissingRound2
C14_Witness ==
  /\ Round2Ran(1) /\ last[1].args.given /\ last[1].args.pts /\ last[1].args.s0
  /\ last[1].args.genuine /\ last[1].args.uidMatch /\ last[1].args.zkp1
  /\ last[1].err = InvalidS

\* The two sessions of the pair were given s values that are equal modulo n
\* and not 0 modulo n.
PasswordsCongruent ==
  /\ drawn[1].s # Unset /\ drawn[2].s # Unset
  /\ mod(drawn[1].s, n) = mod(drawn[2].s, n)
  /\ mod(drawn[1].s, n) # 0

\* C15: s enters the exchange only modulo n.  A session past round2 holds
\* x2s = (x2 * s) mod n, which is what s reduced modulo n gives as well, so s
\* and s + n store the same x2s; and two sessions given s values congruent
\* modulo n (not 0) raise nothing, get to KEYDERIVED and return equal keys.
C15_SReducedModN ==
  /\ \A i \in DOMAIN sess :
       sess[i].state >= ROUND2FINISHED
         => /\ sess[i].x2s = mod(sess[i].x2 * drawn[i].s, n)
            /\ sess[i].x2s = mod(sess[i].x2 * mod(drawn[i].s, n), n)
  /\ PasswordsCongruent
       => /\ \A i \in DOMAIN sess : last[i].err = NoError
          /\ BothDerived \/ \E i \in DOMAIN sess : PairReady(i)
          /\ BothDerived => (ret[1].key = ret[2].key /\ ret[1].key # NoKey)
C15_Witness ==
  /\ BothDerived /\ PasswordsCongruent
  /\ drawn[1].s = n + 1 /\ drawn[2].s = 1
  /\ sess[1].x2 = MaxNonce /\ sess[1].x2s = MaxNonce
  /\ ret[1].key = ret[2].key

\* The last call of session i was a round2 that assigned G3, G4 and x2s (its
\* arguments passed the checks and ZKPx1 verified), and G1 + G3 + G4 is the
\* point at infinity.
GeneratorIsInfinity(i) ==
  /\ Round2Checked(i)
  /\ ~last[i].args.same /\ last[i].args.zkp1
  /\ PointAdd(PointAdd(sess[i].G1, sess[i].G3), sess[i].G4) = ZERO

\* C16 as the spec states it: round2 raises VerificationError("Invalid
\* point: The new generator is the point at infinity") whenever G1 + G3 + G4
\* is the point at infinity, returns no round-2 message and leaves the
\* session in ROUND1FINISHED.  The code builds the proof for x2*s on that
\* generator first, and encoding V = ZERO throws in the curve library, so
\* the error raised is the library's: this is violated.
C16_InfiniteGeneratorRejected ==
  \A i \in DOMAIN sess :
    GeneratorIsInfinity(i)
      => /\ last[i].err = VerificationError("Invalid point: The new generator is the point at infinity")
         /\ sess[i].state = ROUND1FINISHED
         /\ ret[i].r2 = MissingRound2

\* A point of the group other than the point at infinity.
IsFinitePoint(P) == P \in 1..(n - 1)

\* C17: no point a session returns or stores is the point at infinity: G1
\* and G2 returned by round1, A returned by round2, the stored G1 and G2, the
\* peer's G3 and G4 stored by round2 and B stored by setRound2ResultFromBob;
\* a session in KEYDERIVED derived its key from points G3, G4 and B of the
\* group.
C17_NoPointAtInfinity ==
  \A i \in DOMAIN sess :
    /\ Present(ret[i].r1.G1)
         => /\ IsFinitePoint(fromHex(ret[i].r1.G1))
            /\ IsFinitePoint(fromHex(ret[i].r1.G2))
    /\ Present(ret[i].r2.A) => IsFinitePoint(fromHex(ret[i].r2.A))
    /\ \A P \in {sess[i].G1, sess[i].G2, sess[i].G3, sess[i].G4, sess[i].B} :
         P # Unset => IsFinitePoint(P)
    /\ sess[i].state >= ROUND2FINISHED
         => IsFinitePoint(sess[i].G3) /\ IsFinitePoint(sess[i].G4)
    /\ sess[i].state >= ROUND2RESULTSRECEIVED => IsFinitePoint(sess[i].B)
C17_Witness ==
  /\ sess[1].state = KEYDERIVED
  /\ Present(ret[1].r1.G1) /\ Present(ret[1].r2.A)
  /\ IsFinitePoint(sess[1].G3) /\ IsFinitePoint(sess[1].G4)
  /\ IsFinitePoint(sess[1].B)
  /\ ret[1].key # NoKey

\* ------------------------------------------------------------ the Schnorr functions on their own
\* generateSchnorrProof called on any inputs, and verifySchnorrProof called
\* with the same inputs on the proof it returned, on proofs that differ from
\* it in some of their fields, and on malformed proofs.

SchnorrUserIds == {ALICE, BOB, UserId255, UserId256}
SchnorrInfos == {NoInfo, Info1}
\* g: the base point, a generator as round2 computes it, the point at infinity
SchnorrGenerators == {G, PointMultiply(G, MaxNonce + 1), ZERO}
\* x: 0 makes gx the point at infinity
SchnorrSecrets == (0..MaxNonce) \cup {n - 1}

NoProofMade == [err |-> NoError, proof |-> MissingProof]
NoVerdict == [err |-> NoError, ok |-> FALSE]

\* A proof made without the secret, for when generateSchnorrProof raised.
ForgedProof == MakeProof(toRawBytes(G), Scalar(1))

\* The fields in which the proofs P and Q differ.
Differs(P, Q) == {f \in {"len", "VLen", "V", "rLen", "r"} : P[f] # Q[f]}

\* The proofs shown to verifySchnorrProof: P; P with another V (the negated
\* point, the next point, bytes that decode to no point); P with another r
\* (another residue, the same residue plus n, the challenge part dropped); P
\* with another length prefix; P cut short or too long; several at once.
Shown(P) ==
  LET V == fromHex(P.V)
      OtherV == {toRawBytes(W) : W \in {PointSubtract(ZERO, V), PointAdd(V, G)}
                                         \ {ZERO}}
                  \cup {[len |-> PointLen, point |-> ZERO]}
      OtherR == {[P.r EXCEPT !.a = mod(P.r.a + 1, n)],
                 [P.r EXCEPT !.a = P.r.a + n],
                 Scalar(P.r.a)}
      OtherVLen == {PointLen - 1, PointLen + 1}
      OtherRLen == {ScalarLen - 1, 0}
      OtherLen == {1, ProofLen - 1, ProofLen + 1}
  IN {P}
     \cup {[P EXCEPT !.V = b] : b \in OtherV}
     \cup {[P EXCEPT !.r = r] : r \in OtherR}
     \cup {[P EXCEPT !.VLen = k] : k \in OtherVLen}
     \cup {[P EXCEPT !.rLen = k] : k \in OtherRLen}
     \cup {[P EXCEPT !.len = k] : k \in OtherLen}
     \cup {[P EXCEPT !.len = k, !.VLen = PointLen - 1] : k \in OtherLen}
     \cup {[P EXCEPT !.len = ProofLen - 1, !.V = b] : b \in OtherV}
     \cup {[P EXCEPT !.VLen = k, !.V = b] : k \in OtherVLen, b \in OtherV}
     \cup {[P EXCEPT !.rLen = k, !.r = r] : k \in OtherRLen, r \in OtherR}
     \cup {[P EXCEPT !.V = b, !.r = r] : b \in OtherV, r \in OtherR}

\* A call of generateSchnorrProof on the inputs, drawing v.
GenerateSchnorrProof ==
  /\ \E v \in Vs :
       zk' = [zk EXCEPT !.op = "generateSchnorrProof", !.v = v,
                        !.made = generateSchnorrProof(zk.userId, zk.x, zk.gx,
                                                      zk.g, zk.otherInfo, v),
                        !.shown = MissingProof, !.res = NoVerdict]
  /\ UNCHANGED <<sess, ret, last, from, drawn, ds>>

\* What verifySchnorrProof returned on the proof p, recorded.
VerifiedSchnorrProof(p, res) ==
  /\ zk' = [zk EXCEPT !.op = "verifySchnorrProof", !.shown = p, !.res = res]
  /\ UNCHANGED <<sess, ret, last, from, drawn, ds>>

\* A call of verifySchnorrProof with the inputs generateSchnorrProof was
\* called with, on one of the proofs above.
VerifySchnorrProof ==
  /\ zk.op # "new"
  /\ \E p \in Shown(IF zk.made.err = NoError THEN zk.made.proof ELSE ForgedProof) :
       VerifiedSchnorrProof(p, verifySchnorrProof(zk.userId, zk.gx, p, zk.g,
                                                  zk.otherInfo))

InitSchnorr ==
  /\ sess = <<>> /\ ret = <<>> /\ last = <<>> /\ from = <<>> /\ drawn = <<>>
  /\ ds = NoDs
  /\ \E u \in SchnorrUserIds, oi \in SchnorrInfos, g \in SchnorrGenerators,
        x \in SchnorrSecrets :
       zk = [op |-> "new", userId |-> u, otherInfo |-> oi, g |-> g, x |-> x,
             gx |-> PointMultiply(g, x), v |-> Unset, made |-> NoProofMade,
             shown |-> MissingProof, res |-> NoVerdict]

NextSchnorr == GenerateSchnorrProof \/ VerifySchnorrProof

SpecSchnorr == InitSchnorr /\ [][NextSchnorr]_vars

\* The inputs are ones generateSchnorrProof is made for: g and gx are points
\* other than the point at infinity, the userId has at most 255 bytes.
SchnorrInputsValid ==
  /\ zk.g # ZERO /\ zk.gx # ZERO
  /\ Len(Utf8(zk.userId)) <= MaxFieldLen

\* C18: generateSchnorrProof called with a generator g, a secret x, gx = g*x
\* (points other than the point at infinity), a userId of at most 255 bytes
\* and any otherInfo returns a proof; a proof it returned makes
\* verifySchnorrProof return true on the same inputs; when it raised it
\* returned no proof.
C18_SchnorrCompleteness ==
  zk.op \in {"generateSchnorrProof", "verifySchnorrProof"}
    => /\ SchnorrInputsValid => zk.made.err = NoError
       /\ zk.made.err = NoError
            => verifySchnorrProof(zk.userId, zk.gx, zk.made.proof, zk.g,
                                  zk.otherInfo) = [err |-> NoError, ok |-> TRUE]
       /\ zk.made.err # NoError => zk.made.proof = MissingProof
       /\ (zk.op = "verifySchnorrProof" /\ zk.made.err = NoError
             /\ zk.shown = zk.made.proof)
            => zk.res = [err |-> NoError, ok |-> TRUE]
C18_Witness ==
  /\ zk.op = "verifySchnorrProof"
  /\ zk.userId = UserId255 /\ zk.otherInfo = Info1
  /\ zk.g # G /\ zk.x = n - 1
  /\ zk.made.err = NoError /\ zk.shown = zk.made.proof
  /\ zk.res = [err |-> NoError, ok |-> TRUE]

\* C19: a proof that differs from the one generateSchnorrProof returned in
\* V, in r or in a length prefix does not make verifySchnorrProof return true
\* on the same inputs: it returns false or raises.
C19_TamperedProofRejected ==
  (/\ zk.op = "verifySchnorrProof" /\ zk.made.err = NoError
   /\ Differs(zk.shown, zk.made.proof) \cap {"V", "r", "VLen", "rLen"} # {})
    => ~(zk.res.err = NoError /\ zk.res.ok)
C19_Witness ==
  /\ zk.op = "verifySchnorrProof" /\ zk.made.err = NoError
  /\ Differs(zk.shown, zk.made.proof) = {"r"}
  /\ zk.shown.r.h = zk.made.proof.r.h /\ zk.shown.r.a < n
  /\ zk.res = [err |-> NoError, ok |-> FALSE]

\* C20: verifySchnorrProof on a proof that is not 67 bytes long raises
\* VerificationError("Invalid proof, must be 33 + 32 + 2 bytes long"),
\* whatever its prefixes; on one of 67 bytes whose first prefix is not 33 or
\* whose second is not 32 it raises VerificationError("Invalid proof, V must
\* be 33 bytes and r must be 32 bytes"), whatever its V; on one of 67 bytes
\* with both prefixes right whose V decodes to no point it returns false and
\* raises nothing.
C20_MalformedProofOrder ==
  zk.op = "verifySchnorrProof"
    => /\ zk.shown.len # ProofLen
            => zk.res.err = VerificationError("Invalid proof, must be 33 + 32 + 2 bytes long")
       /\ (/\ zk.shown.len = ProofLen
           /\ zk.shown.VLen # PointLen \/ zk.shown.rLen # ScalarLen)
            => zk.res.err = VerificationError("Invalid proof, V must be 33 bytes and r must be 32 bytes")
       /\ (/\ zk.shown.len = ProofLen
           /\ zk.shown.VLen = PointLen /\ zk.shown.rLen = ScalarLen
           /\ ~IsPointBytes(zk.shown.V))
            => zk.res = [err |-> NoError, ok |-> FALSE]
C20_Witness ==
  /\ zk.op = "verifySchnorrProof"
  /\ zk.shown.len = ProofLen
  /\ zk.shown.VLen = PointLen /\ zk.shown.rLen = ScalarLen
  /\ ~IsPointBytes(zk.shown.V) /\ zk.shown.V.len = PointLen
  /\ zk.gx = ZERO
  /\ zk.res = [err |-> NoError, ok |-> FALSE]

\* C21: a session constructed with a userId or an otherInfo element of more
\* than 255 bytes has returned no message and is in INITIAL, and round1 on it
\* raised InvalidArgumentError for the field that is too long; round2 given a
\* peer userId of more than 255 bytes, with arguments that pass its earlier
\* checks and a ZKPx1 of the shape of a proof, raises InvalidArgumentError
\* for it and stays in ROUND1FINISHED.
C21_LengthLimits ==
  \A i \in DOMAIN sess :
    /\ (TooLong(sess[i].userId)
          \/ \E k \in 1..Len(sess[i].otherInfo) : TooLong(sess[i].otherInfo[k]))
         => /\ sess[i].state = INITIAL
            /\ ret[i] = NoReturn
            /\ last[i].op = "round1"
                 => last[i].err = IF TooLong(sess[i].userId) THEN UserIdTooLong
                                  ELSE OtherInfoTooLong
    /\ (/\ Round2Checked(i) /\ ~last[i].args.same /\ last[i].args.wf1
        /\ TooLong(sess[i].bobUserId))
         => /\ last[i].err = UserIdTooLong
            /\ sess[i].state = ROUND1FINISHED
            /\ ret[i].r2 = MissingRound2
C21_Witness ==
  /\ sess[1].userId = ALICE /\ sess[1].otherInfo = LongInfo
  /\ last[1].op = "round1" /\ last[1].err = OtherInfoTooLong
  /\ sess[1].state = INITIAL /\ sess[1].G1 # Unset

\* ------------------------------------------------------------ deriveSFromPassword
\* deriveSFromPassword(password), its loop taken step by step.  The hash is
\* a fixed function that nothing is known of: ds.sha3 gives, for each of the
\* two byte strings the call can hash, the number its digest holds
\* (bytesToNumberBE(sha3_256(bytes))), chosen when the run starts.

\* 'retried'
retried == <<114, 101, 116, 114, 105, 101, 100>>
\* Passwords: none, 'p', 'pw', one two-byte code point.
Passwords == {EMPTY, <<112>>, <<112, 119>>, <<233>>}
\* Numbers a digest can hold: below n, n itself, above n (a digest has 256
\* bits and n is just below 2^256).
HashOutcomes == {0, 1, 50, n - 1, n, n + 1}

\* numberToBytesBE(s, 32), and no bytes
numberToBytesBE(s, len) == [len |-> len, num |-> s]
NoS == [len |-> Unset, num |-> 0]

\* A faulty variant of sOfHash: the digest is not reduced.
sOfHashUnreduced(h) == h

\* mod(bytesToNumberBE(passwordHash), n)
sOfHash(h) == mod(h, n)

\* The call: a missing password raises, otherwise the password is hashed and
\* the loop is reached.
DeriveCall ==
  /\ ds.pc \in {"new", "returned", "raised"}
  /\ ds.calls < MaxCalls
  /\ IF ds.password = EMPTY
     THEN ds' = [ds EXCEPT !.pc = "raised", !.calls = @ + 1,
                           !.err = InvalidArgumentError("Missing password")]
     ELSE ds' = [ds EXCEPT !.pc = "while", !.calls = @ + 1, !.err = NoError,
                           !.s = sOfHash(ds.sha3[Utf8(ds.password)]),
                           !.turns = 0, !.out = NoS]
  /\ UNCHANGED <<sess, ret, last, from, drawn, zk>>

\* One turn of while (s === 0n): password + 'retried' is hashed.  Of the
\* number of turns taken the model keeps whether it is even or odd.
DeriveRetry ==
  /\ ds.pc = "while" /\ ds.s = 0
  /\ ds' = [ds EXCEPT !.s = sOfHash(ds.sha3[Utf8(ds.password \o retried)]),
                      !.turns = (@ + 1) % 2]
  /\ UNCHANGED <<sess, ret, last, from, drawn, zk>>

\* The loop is left and s returned as 32 bytes.
DeriveReturn ==
  /\ ds.pc = "while" /\ ds.s # 0
  /\ ds' = [ds EXCEPT !.pc = "returned", !.out = numberToBytesBE(ds.s, ScalarLen),
                      !.first = IF ds.first = NoS
                                THEN numberToBytesBE(ds.s, ScalarLen) ELSE @]
  /\ UNCHANGED <<sess, ret, last, from, drawn, zk>>

InitDerive ==
  /\ sess = <<>> /\ ret = <<>> /\ last = <<>> /\ from = <<>> /\ drawn = <<>>
  /\ zk = NoZk
  /\ \E pw \in Passwords :
       \E h \in [{Utf8(pw), Utf8(pw \o retried)} -> HashOutcomes] :
         ds = [pc |-> "new", password |-> pw, sha3 |-> h, calls |-> 0,
               s |-> Unset, turns |-> 0, out |-> NoS, first |-> NoS,
               err |-> NoError]

NextDerive == DeriveCall \/ DeriveRetry \/ DeriveReturn

SpecDerive == InitDerive /\ [][NextDerive]_vars

\* A call that can take a step takes one.
FairSpecDerive == SpecDerive /\ WF_vars(NextDerive)

\* C22: deriveSFromPassword returns only for a nonempty password; what it
\* returns is 32 bytes holding a number in 1..n-1, the hash of the password
\* reduced modulo n whenever that is not 0; and a second call with the same
\* password returns the same bytes as the first.
C22_DeriveSDeterministic ==
  /\ ds.pc = "returned"
       => /\ ds.password # EMPTY
          /\ ds.out.len = ScalarLen
          /\ ds.out.num \in 1..(n - 1)
          /\ mod(ds.sha3[Utf8(ds.password)], n) # 0
               => ds.out.num = mod(ds.sha3[Utf8(ds.password)], n)
          /\ ds.out = ds.first
  /\ ds.pc = "raised" => ds.password = EMPTY
C22_Witness ==
  /\ ds.pc = "returned" /\ ds.calls >= 2
  /\ ds.sha3[Utf8(ds.password)] = n + 1
  /\ ds.out = numberToBytesBE(1, ScalarLen) /\ ds.out = ds.first

\* C28 as the spec states it: a call of deriveSFromPassword that has reached
\* its loop leaves it and returns, whatever the two digests are.  The loop
\* hashes the same bytes at every turn, so when both digests are 0 modulo n
\* it never ends: this is violated.
C28_DeriveSTerminates == (ds.pc = "while") ~> (ds.pc = "returned")

\* ------------------------------------------------------------ two sessions, any order
\* Two JPake objects, Alice's (1) and Bob's (2).  Any operation is called on
\* either at any time, in any order, with what the other has returned so
\* far: calls in the wrong state and calls made before the other's message
\* exists raise, the others go through.
TwoS == {1, 50}
TwoRound2Calls(i) ==
  {[msg |-> ret[Peer(i)].r1, by |-> SessionOrigin(Peer(i)), s |-> s,
    uid |-> sess[Peer(i)].userId] : s \in TwoS}

\* round1 draws x1 here; x2 and the proofs' secrets are the largest ones.
TwoRound1(i) ==
  \E x1 \in IF sess[i].state = INITIAL THEN Nonces ELSE {MaxNonce} :
    LET r == round1(sess[i], x1, MaxNonce, MaxV, MaxV)
    IN /\ Returned(i, r, "r1", "round1", NoArgs)
       /\ from' = from
       /\ drawn' = IF r.err = NoError
                   THEN [drawn EXCEPT ![i].x1 = x1, ![i].x2 = MaxNonce,
                                      ![i].v1 = MaxV, ![i].v2 = MaxV]
                   ELSE drawn
TwoRound2(i) ==
  \E c \in TwoRound2Calls(i) : \E v \in Round2Draws(i, c) : CallRound2(i, c, v)
TwoSetRound2ResultFromBob(i) ==
  CallSetRound2ResultFromBob(i, [msg |-> ret[Peer(i)].r2,
                                 by |-> SessionOrigin(Peer(i))])
TwoDeriveSharedKey(i) == DeriveSharedKey(i)

InitTwo == InitThreePass

NextTwo ==
  \E i \in {1, 2} :
    \/ TwoRound1(i)
    \/ TwoRound2(i)
    \/ TwoSetRound2ResultFromBob(i)
    \/ TwoDeriveSharedKey(i)

SpecTwo == InitTwo /\ [][NextTwo]_vars

\* Everything the model keeps of session j is left as it is.
SessionUntouched(j) ==
  /\ sess'[j] = sess[j] /\ ret'[j] = ret[j] /\ last'[j] = last[j]
  /\ from'[j] = from[j] /\ drawn'[j] = drawn[j]

\* What round1 returns on a newly constructed session like i that draws
\* what i drew.
Round1Alone(i) ==
  round1(NewSession(sess[i].userId, sess[i].otherInfo),
         drawn[i].x1, drawn[i].x2, drawn[i].v1, drawn[i].v2)

\* C23: a call on one session, whether it returns or raises, leaves the
\* state and every stored field of the other session as they were; and what
\* a session holds from its round1 is what round1 gives on a session of its
\* own with the same draws, whatever was called on the other in between.
C23_SessionsIndependent ==
  /\ [][\E i \in DOMAIN sess : \A j \in DOMAIN sess \ {i} : SessionUntouched(j)]_vars
  /\ [](\A i \in DOMAIN sess :
          sess[i].state >= ROUND1FINISHED
            => /\ ret[i].r1 = Round1Alone(i).out
               /\ sess[i].G1 = Round1Alone(i).sess.G1
               /\ sess[i].G2 = Round1Alone(i).sess.G2)
C23_Witness ==
  /\ sess[2].state = KEYDERIVED
  /\ sess[1].state = ROUND2FINISHED
  /\ last[1].op = "deriveSharedKey" /\ last[1].err # NoError
  /\ last[2].op = "round1" /\ last[2].err # NoError

\* ------------------------------------------------------------ order of round2's checks
\* The errors of round2's checks that come before the proof is verified.
Round2StateError == InvalidStateError("Round 2 can only be executed after Round 1")
Round2MissingError == InvalidArgumentError("Missing required arguments for round 2")
Round2PointsError ==
  InvalidArgumentError("Invalid points received: G1 or G2 is not a valid ProjectivePoint")
Round2SError == InvalidArgumentError("Invalid s: s MUST not be equal to 0 mod n")
Round2SameIdError == VerificationError("Proof verification failed, userIds are equal.")

\* C24: round2 raises for the first of its checks that fails, in this
\* order: the state; the presence of the four fields, of s and of the peer's
\* userId; the decoding of G1 and G2; s mod n # 0; the peer's userId not
\* being its own; the verification of the proof.  Bytes that are no points
\* give the error of the points also when the proofs are no proofs.
C24_Round2CheckOrder ==
  \A i \in DOMAIN sess :
    last[i].op = "round2"
      => LET a == last[i].args
             e == last[i].err
         IN IF last[i].pre # ROUND1FINISHED THEN e = Round2StateError
            ELSE IF ~a.fields \/ ~a.given THEN e = Round2MissingError
            ELSE IF ~a.pts THEN e = Round2PointsError
            ELSE IF a.s0 THEN e = Round2SError
            ELSE IF a.same THEN e = Round2SameIdError
            ELSE IF ~a.zkp1
            THEN e \notin {NoError, Round2StateError, Round2MissingError,
                           Round2PointsError, Round2SError, Round2SameIdError}
            ELSE e \notin {Round2StateError, Round2MissingError,
                           Round2PointsError, Round2SError, Round2SameIdError}
C24_Witness ==
  /\ last[1].op = "round2" /\ last[1].pre = ROUND1FINISHED
  /\ last[1].args.fields /\ last[1].args.given
  /\ ~last[1].args.pts /\ ~last[1].args.wf1
  /\ last[1].args.s0 /\ last[1].args.same
  /\ last[1].err = Round2PointsError

\* ------------------------------------------------------------ two sessions, scalars at the edges
\* Alice and Bob as in the pair, with ephemeral scalars that make the sums
\* and products wrap around n: x1 + x3 = n, x1 + x3 + x4 = n, x2 * s > n.
EdgeNonces == {1, 50, n - 1}

EdgeRound1(i) ==
  /\ sess[i].state = INITIAL
  /\ \E x1 \in EdgeNonces, x2 \in EdgeNonces :
       LET r == round1(sess[i], x1, x2, MaxV, MaxV)
       IN /\ Returned(i, r, "r1", "round1", NoArgs)
          /\ from' = from
          /\ drawn' = IF r.err = NoError
                      THEN [drawn EXCEPT ![i].x1 = x1, ![i].x2 = x2,
                                         ![i].v1 = MaxV, ![i].v2 = MaxV]
                      ELSE drawn
EdgeRound2(i) ==
  /\ sess[i].state = ROUND1FINISHED
  /\ Present(ret[Peer(i)].r1.G1)
  /\ \E s \in PairS(i) :
       CallRound2(i, [msg |-> ret[Peer(i)].r1, by |-> SessionOrigin(Peer(i)),
                      s |-> s, uid |-> sess[Peer(i)].userId], MaxV)
EdgeSetRound2ResultFromBob(i) == PairSetRound2ResultFromBob(i)
EdgeDeriveSharedKey(i) == PairDeriveSharedKey(i)

InitEdge == InitPair

NextEdge ==
  \E i \in {1, 2} :
    \/ EdgeRound1(i)
    \/ EdgeRound2(i)
    \/ EdgeSetRound2ResultFromBob(i)
    \/ EdgeDeriveSharedKey(i)

SpecEdge == InitEdge /\ [][NextEdge]_vars

\* round2's generator, G1 + G3 + G4
round2Generator(S) == PointAdd(PointAdd(S.G1, S.G3), S.G4)

\* The peer's round-2 proof that session i stored verifies in deriveSharedKey.
PeerProofVerifies(i) ==
  LET S == sess[i]
      c == verifyPeerProof(S, S.bobUserId, S.B, S.ZKPx2sBob, keyGenerator(S))
  IN c.err = NoError /\ c.ok

\* C25: the generator of deriveSharedKey, own G1 + stored G3 + own G2, is the
\* generator the peer's round2 used, its G1 + its G3 + its G4, whatever the
\* four ephemeral scalars are; so the round-2 proof an honest peer returned
\* verifies, and deriveSharedKey does not raise for the proof.
C25_SameGenerator ==
  \A i \in DOMAIN sess :
    /\ (sess[i].G3 # Unset /\ sess[Peer(i)].G3 # Unset)
         => keyGenerator(sess[i]) = round2Generator(sess[Peer(i)])
    /\ sess[i].state >= ROUND2RESULTSRECEIVED => PeerProofVerifies(i)
    /\ (last[i].op = "deriveSharedKey" /\ last[i].err # NoError)
         => last[i].err = LibraryError("bad point: ZERO")
C25_Witness ==
  /\ sess[1].state = KEYDERIVED
  /\ drawn[1].x1 = n - 1 /\ drawn[1].x2 = 50 /\ drawn[2].x1 = 50
  /\ keyGenerator(sess[1]) = round2Generator(sess[2])
  /\ keyGenerator(sess[1]) # round2Generator(sess[1])
  /\ PeerProofVerifies(1)

\* G x [(x1 + x3) * x2 * x4 * s mod n], x1 and x2 being session i's
\* ephemeral scalars, x3 and x4 its peer's, s the one i was given.
ExpectedKa(i) ==
  LET x1 == sess[i].x1
      x2 == sess[i].x2
      x3 == sess[Peer(i)].x1
      x4 == sess[Peer(i)].x2
  IN PointMultiply(G, mod((x1 + x3) * x2 * x4 * drawn[i].s, n))

\* C26: when the two sessions were given the same s (the same modulo n), the
\* point Ka = (B - G4 x [x2s]) x [x2] of deriveSharedKey is
\* G x [(x1 + x3) * x2 * x4 * s mod n], and the key returned is the SHA3-256
\* of the compressed encoding of that point.
C26_KaClosedForm ==
  \A i \in DOMAIN sess :
    (/\ sess[i].state >= ROUND2RESULTSRECEIVED
     /\ mod(drawn[i].s, n) = mod(drawn[Peer(i)].s, n))
      => /\ Ka(sess[i]) = ExpectedKa(i)
         /\ sess[i].state = KEYDERIVED
              => ret[i].key = sha3_256(toRawBytes(ExpectedKa(i)))
C26_Witness ==
  /\ sess[1].state = KEYDERIVED /\ last[1].op = "deriveSharedKey"
  /\ drawn[1].s = n + 1 /\ drawn[2].s = 1
  /\ sess[1].x1 = n - 1 /\ sess[1].x2 = 50 /\ sess[2].x1 = 50 /\ sess[2].x2 = 50
  /\ ret[1].key = sha3_256(toRawBytes(ExpectedKa(1)))
  /\ ExpectedKa(1) # G

\* ------------------------------------------------------------ the stored scalars
\* C27: in every reachable state the secret scalars a session has stored are
\* in range: x1 and x2 in 1..n-1 once round1 has assigned them, x2s in
\* 1..n-1 once round2 has assigned it; from ROUND1FINISHED on x1 and x2 are
\* stored, and from ROUND2FINISHED on x2s is (x2 * s) mod n for the s of the
\* round2 that succeeded.
C27_SecretsInRange ==
  \A i \in DOMAIN sess :
    /\ sess[i].x1 # Unset => sess[i].x1 \in 1..(n - 1)
    /\ sess[i].x2 # Unset => sess[i].x2 \in 1..(n - 1)
    /\ sess[i].x2s # Unset => sess[i].x2s \in 1..(n - 1)
    /\ sess[i].state >= ROUND1FINISHED
         => (sess[i].x1 # Unset /\ sess[i].x2 # Unset)
    /\ sess[i].state >= ROUND2FINISHED
         => /\ sess[i].x2s # Unset
            /\ sess[i].x2s = (sess[i].x2 * drawn[i].s) % n
C27_Witness ==
  /\ sess[1].state = KEYDERIVED
  /\ sess[1].x2 = MaxNonce /\ drawn[1].s = n + 1
  /\ sess[1].x2s = MaxNonce
  /\ sess[1].x2 * drawn[1].s > n

\* ------------------------------------------------------------ a raising call and the state
\* C29: a call of round1, round2, setRound2ResultFromBob or deriveSharedKey
\* that raises, whatever the error, leaves the state as it was: the state
\* after the call is the state before it.
C29_RaiseKeepsState ==
  /\ [][\A i \in DOMAIN sess :
          last'[i].err # NoError => sess'[i].state = sess[i].state]_vars
  /\ [](\A i \in DOMAIN sess :
          last[i].err # NoError => sess[i].state = last[i].pre)
C29_Witness ==
  /\ last[1].op = "setRound2ResultFromBob"
  /\ last[1].err = LibraryError("Point is not on curve")
  /\ last[1].pre = ROUND2FINISHED
  /\ sess[1].state = ROUND2FINISHED

\* ------------------------------------------------------------ what a derived key rests on
\* C30: a session in KEYDERIVED has a peer userId stored that is not its own;
\* the round-1 message its round2 accepted, whose G1 it stored as G3, has a
\* ZKPx1 that verifies for that G1 under the stored peer userId and the
\* session's otherInfo; its stored B is not the point at infinity; and the
\* stored round-2 proof of the peer verifies for B with the generator
\* G1 + G2 + G3 under the same userId and otherInfo.
C30_KeyOnlyAfterChecks ==
  \A i \in DOMAIN sess :
    sess[i].state = KEYDERIVED
      => LET S == sess[i]
             c == verifySchnorrProof(S.bobUserId, S.B, S.ZKPx2sBob,
                                     PointAdd(PointAdd(S.G1, S.G2), S.G3),
                                     S.otherInfo)
         IN /\ S.bobUserId # EMPTY /\ S.bobUserId # S.userId
            /\ IsPointBytes(from[i].msg1.G1)
            /\ fromHex(from[i].msg1.G1) = S.G3
            /\ ProofHolds(S.bobUserId, from[i].msg1.G1, from[i].msg1.ZKPx1,
                          S.otherInfo)
            /\ S.B # Unset /\ S.B # ZERO
            /\ c.err = NoError /\ c.ok
C30_Witness ==
  /\ sess[1].state = KEYDERIVED
  /\ last[1].op = "round2" /\ last[1].err # NoError
  /\ sess[1].bobUserId = BOB
  /\ from[1].msg1.ZKPx2 = GarbageProof
  /\ ret[1].key # NoKey

\* ------------------------------------------------------------ reflection
\* C31: round2 given the message round1 returned on the same session raises
\* and leaves the session in ROUND1FINISHED, whatever peer userId is claimed:
\* with the session's own userId the error is that the userIds are equal,
\* with any other userId the proof does not verify (for a userId of more
\* than 255 bytes the verification raises the error of its length); so the
\* round-1 message a session has accepted is never its own.
C31_ReflectionRejected ==
  \A i \in DOMAIN sess :
    /\ (Round2Ran(i) /\ last[i].args.reflected)
         => /\ last[i].err # NoError
            /\ sess[i].state = ROUND1FINISHED
            /\ ret[i].r2 = MissingRound2
            /\ (last[i].args.given /\ ~last[i].args.s0)
                 => last[i].err = IF last[i].args.same THEN UserIdsEqual
                                  ELSE IF TooLong(sess[i].bobUserId)
                                  THEN UserIdTooLong
                                  ELSE ZKPFailed
    /\ sess[i].state >= ROUND2FINISHED => from[i].msg1 # ret[i].r1
C31_Witness ==
  /\ Round2Ran(1) /\ last[1].args.reflected
  /\ last[1].args.given /\ ~last[1].args.same
  /\ sess[1].bobUserId = BOB
  /\ last[1].err = ZKPFailed
  /\ sess[1].state = ROUND1FINISHED

\* ------------------------------------------------------------ the adapters, any call
\* Two JPakeThreePass objects, Alice's (1) and Bob's (2).  Any method is
\* called on either at any time, with what the other has returned so far or
\* with bytes that are no message, with a good s or s = 0, and with the
\* other's userId or the adapter's own.
AdapterS == {0, 1}
AdapterUserIds(i) == {sess[Peer(i)].userId, sess[i].userId}
AdapterRound1Inputs(i) ==
  {[msg |-> ret[Peer(i)].r1, by |-> SessionOrigin(Peer(i))],
   [msg |-> [G1 |-> GarbageBytes, G2 |-> GarbageBytes,
             ZKPx1 |-> GarbageProof, ZKPx2 |-> GarbageProof],
    by |-> Origin(EVE, NoInfo, Unset, Unset, "garbage")]}
AdapterRound2Inputs(i) ==
  {[msg |-> ret[Peer(i)].r2, by |-> SessionOrigin(Peer(i))],
   [msg |-> [A |-> GarbageBytes, ZKPx2s |-> GarbageProof],
    by |-> Origin(EVE, NoInfo, Unset, Unset, "garbage")],
   [msg |-> MissingRound2, by |-> Origin(EVE, NoInfo, Unset, Unset, "missing")]}

\* What a call on adapter i leaves: r is what the call gave, step the call
\* inside it that raised, r1 and r2 the messages the caller holds of i if the
\* call returns, f and d the records of accepted messages and of draws.
AdapterReturned(i, r, op, step, r1, r2, f, d) ==
  /\ sess' = [sess EXCEPT ![i] = r.sess]
  /\ ret' = IF r.err = NoError
            THEN [ret EXCEPT ![i].r1 = r1, ![i].r2 = r2] ELSE ret
  /\ UNCHANGED <<zk, ds>>
  /\ last' = [last EXCEPT ![i] =
                Call(op, sess[i], r.err, [NoArgs EXCEPT !.step = step])]
  /\ from' = IF r.err = NoError THEN [from EXCEPT ![i] = f] ELSE from
  /\ drawn' = IF r.err = NoError THEN [drawn EXCEPT ![i] = d] ELSE drawn

\* The x1 a call that runs round1 may draw; the other draws are the largest.
AdapterDraws(i) == IF sess[i].state = INITIAL THEN Nonces ELSE {MaxNonce}

AdapterPass1(i) ==
  \E x1 \in AdapterDraws(i) :
    LET r == pass1(sess[i], x1, MaxNonce, MaxV, MaxV)
    IN AdapterReturned(i, r, "pass1", IF r.err = NoError THEN "none" ELSE "round1",
                       r.out, ret[i].r2, from[i],
                       [drawn[i] EXCEPT !.x1 = x1, !.x2 = MaxNonce,
                                        !.v1 = MaxV, !.v2 = MaxV])

AdapterPass2Returned(i, r, in, x1, s) ==
  AdapterReturned(i, r, "pass2", r.step,
                  r.out.round1Result, r.out.round2Result,
                  [from[i] EXCEPT !.r1 = in.by, !.msg1 = in.msg],
                  [x1 |-> x1, x2 |-> MaxNonce, v1 |-> MaxV, v2 |-> MaxV,
                   v |-> MaxV, s |-> s])
AdapterPass2(i) ==
  \E x1 \in AdapterDraws(i), in \in AdapterRound1Inputs(i), s \in AdapterS,
     uid \in AdapterUserIds(i) :
    AdapterPass2Returned(i, pass2(sess[i], in.msg, s, uid,
                                  x1, MaxNonce, MaxV, MaxV, MaxV), in, x1, s)

AdapterPass3Returned(i, r, in1, in2, s) ==
  AdapterReturned(i, r, "pass3", r.step, ret[i].r1, r.out,
                  [r1 |-> in1.by, r2 |-> in2.by, msg1 |-> in1.msg],
                  [drawn[i] EXCEPT !.v = MaxV, !.s = s])
AdapterPass3(i) ==
  \E in1 \in AdapterRound1Inputs(i), in2 \in AdapterRound2Inputs(i),
     s \in AdapterS, uid \in AdapterUserIds(i) :
    AdapterPass3Returned(i, pass3(sess[i], [round1Result |-> in1.msg,
                                            round2Result |-> in2.msg],
                                  s, uid, MaxV), in1, in2, s)

AdapterReceiveReturned(i, r, in) ==
  AdapterReturned(i, r, "receivePass3Results",
                  IF r.err = NoError THEN "none" ELSE "setRound2ResultFromBob",
                  ret[i].r1, ret[i].r2, [from[i] EXCEPT !.r2 = in.by], drawn[i])
AdapterReceivePass3Results(i) ==
  \E in \in AdapterRound2Inputs(i) :
    AdapterReceiveReturned(i, receivePass3Results(sess[i], in.msg), in)

AdapterDeriveSharedKey(i) == DeriveSharedKey(i)

InitAdapter == InitThreePass

NextAdapter ==
  \E i \in {1, 2} :
    \/ AdapterPass1(i)
    \/ AdapterPass2(i)
    \/ AdapterPass3(i)
    \/ AdapterReceivePass3Results(i)
    \/ AdapterDeriveSharedKey(i)

SpecAdapter == InitAdapter /\ [][NextAdapter]_vars

\* The call that has just been made on adapter i was op, in the state pre,
\* and the call inside it that raised was step.
JustRaised(i, op, pre, step) ==
  /\ last'[i] # last[i]
  /\ last'[i].op = op /\ last'[i].pre = pre
  /\ last'[i].err # NoError /\ last'[i].args.step = step

\* C32: when round2 raises inside pass2, round1 has run: the session is left
\* in ROUND1FINISHED and the caller gets nothing; when
\* setRound2ResultFromBob raises inside pass3 after round2 returned, the
\* session is left in ROUND2FINISHED and the caller gets nothing.  A
\* round-1 (round-2) message not handed out by the time the session is in
\* ROUND1FINISHED (ROUND2FINISHED) is never handed out, and every pass2
\* called on a session that is not in INITIAL, every pass3 called on one
\* that is not in ROUND1FINISHED, raises InvalidStateError.
C32_CompositeStepsNotReplayable ==
  [][\A i \in DOMAIN sess :
       /\ JustRaised(i, "pass2", INITIAL, "round2")
            => /\ sess'[i].state = ROUND1FINISHED
               /\ ret'[i] = ret[i] /\ ret[i].r1 = MissingRound1
       /\ JustRaised(i, "pass3", ROUND1FINISHED, "setRound2ResultFromBob")
            => /\ sess'[i].state = ROUND2FINISHED
               /\ ret'[i] = ret[i] /\ ret[i].r2 = MissingRound2
       /\ (sess[i].state >= ROUND1FINISHED /\ ret[i].r1 = MissingRound1)
            => ret'[i].r1 = MissingRound1
       /\ (sess[i].state >= ROUND2FINISHED /\ ret[i].r2 = MissingRound2)
            => ret'[i].r2 = MissingRound2
       /\ sess'[i].state >= sess[i].state
       /\ (last'[i].op = "pass2" /\ last'[i].pre = sess[i].state
           /\ sess[i].state # INITIAL)
            => (last'[i].err.kind = "InvalidStateError" /\ sess'[i] = sess[i])
       /\ (last'[i].op = "pass3" /\ last'[i].pre = sess[i].state
           /\ sess[i].state # ROUND1FINISHED)
            => (last'[i].err.kind = "InvalidStateError" /\ sess'[i] = sess[i])
    ]_vars
C32_Witness ==
  /\ sess[2].state = ROUND2FINISHED
  /\ sess[2].G1 # Unset /\ ret[2].r1 = MissingRound1
  /\ sess[2].x2s # Unset /\ ret[2].r2 = MissingRound2
  /\ last[2].op = "pass3" /\ last[2].pre = ROUND2FINISHED
  /\ last[2].err.kind = "InvalidStateError"

====
